---------------------------- MODULE Spec2Model ----------------------------
(***************************************************************************)
(* A model of the media relay bot (ghos-sd/Media).                         *)
(*                                                                         *)
(*   bot.py        download_best / download_youtube_audio (the size-      *)
(*                 constrained acquisition pipeline), handle_url and       *)
(*                 on_choice (the cooldown gate), and the pure helpers     *)
(*                 compute_bitrates, compute_audio_bitrate,                *)
(*                 scaling_filter_for_bitrate, pick_direct_under_limit.    *)
(*   handlers.py,  handle_media_request, the second pipeline, which has   *)
(*   media_bot.py  no size check of its own.                               *)
(*                                                                         *)
(* Four specifications share the variables:                                *)
(*   Spec        one run of download_best or download_youtube_audio, one   *)
(*               action per return of an external tool;                    *)
(*   SpecRouter  handle_url / on_choice tasks of several users over a      *)
(*               clock, a pipeline run abstracted to start and finish;     *)
(*   SpecMedia   one run of handle_media_request;                          *)
(*   SpecArith   the pure bitrate arithmetic applied to drawn inputs.      *)
(* A specification leaves the other parts' variables at their idle value.  *)
(***************************************************************************)
EXTENDS Integers, Sequences, FiniteSets, TLC

\* ------------------------------------------------------------------------
\* Program constants
\* ------------------------------------------------------------------------

\* bot.py:35  MAX_MB = float(os.getenv("MAX_MB", "70"))
MAX_MB == 70

MiB == 1024 * 1024

\* bot.py:36  TARGET_BYTES = int(MAX_MB * 1024 * 1024)
TARGET_BYTES == MAX_MB * MiB

\* bot.py:49  RATE_LIMIT_SECONDS = int(os.getenv("RATE_LIMIT_SECONDS", "10"))
RATE_LIMIT_SECONDS == 10

\* bot.py:121  audio_kbps: int = 96
DEFAULT_AUDIO_KBPS == 96

\* bot.py:125  the floor of the video bitrate
VIDEO_FLOOR_KBPS == 280

\* bot.py:57  ceiling_kbps: int = 320
DEFAULT_CEILING_KBPS == 320

\* bot.py:62  the floor of the audio bitrate, and the container margin
AUDIO_FLOOR_KBPS == 64

CONTAINER_MARGIN_KBPS == 16

\* bot.py:183 and bot.py:234  the fallback durations, in seconds
VIDEO_DEFAULT_DURATION == 30

AUDIO_DEFAULT_DURATION == 60

\* bot.py:118  x[1].get("height", 1e9)
HEIGHT_DEFAULT == 1000000000

\* ------------------------------------------------------------------------
\* Bounds of the model
\* ------------------------------------------------------------------------

\* Durations are rationals with this denominator: d stands for d / DurDen s.
DurDen == 2

\* The longest format list a probe returns.
MaxFormats == 2

\* The number of updates (messages and button presses) the handlers receive.
MaxUpdates == 3

\* The number of requests that hold a working directory over a run.
MaxRequests == 3

\* The longest format list pick_direct_under_limit is called on.
MaxPickFormats == 3

\* How many times pick_direct_under_limit is called on the same list.
MaxPickCalls == 2

\* The clock advances in steps of TickSeconds, MaxTicks times.
TickSeconds == 5

MaxTicks == 4

\* ------------------------------------------------------------------------
\* Values
\* ------------------------------------------------------------------------

\* In a numeric field: JSON null (Python None), and a key that is absent.
Null == 0 - 1

Absent == 0 - 2

\* The outcome of a call that raises.
Raise == "Raise"

\* Python None, where a name or a record is expected.
None == "None"

Max(a, b) == IF a >= b THEN a ELSE b

\* ------------------------------------------------------------------------
\* bot.py:121-126 and 57-63: the bitrate arithmetic.  A duration d is in
\* units of 1/DurDen s.  total_kbps = target_bytes * 8 / duration / 1000 is
\* the rational TotalNum / TotalDen; Python's int() of a positive float is
\* its floor.
\* ------------------------------------------------------------------------

\* A mutant of ClampDuration: the duration is used as probed.
ClampDuration_unclamped(d) == d

\* duration = max(duration, 1.0)
ClampDuration(d) == Max(d, DurDen)

\* total_kbps = TotalNum / TotalDen, with the 8 / 1000 reduced to 1 / 125.
TotalDen(d) == ClampDuration(d) * 125

\* floor(total_kbps), computed so that no product leaves 32 bits
TotalFloor(d, target_bytes) ==
    DurDen * (target_bytes \div TotalDen(d))
      + ((target_bytes % TotalDen(d)) * DurDen) \div TotalDen(d)

\* total_kbps is not an integer
TotalFraction(d, target_bytes) ==
    ((target_bytes % TotalDen(d)) * DurDen) % TotalDen(d) > 0

\* total_kbps > k, for an integer k
TotalAbove(d, target_bytes, k) ==
    \/ TotalFloor(d, target_bytes) > k
    \/ TotalFloor(d, target_bytes) = k /\ TotalFraction(d, target_bytes)

\* total_kbps >= k, for an integer k
TotalAtLeast(d, target_bytes, k) == TotalFloor(d, target_bytes) >= k

\* A mutant of compute_bitrates: the floor is forgotten.
compute_bitrates_nofloor(d, target_bytes, audio_kbps) ==
    << TotalFloor(d, target_bytes) - audio_kbps, audio_kbps >>

\* A mutant of compute_bitrates: the audio reservation is not subtracted.
compute_bitrates_noaudio(d, target_bytes, audio_kbps) ==
    << Max(TotalFloor(d, target_bytes), VIDEO_FLOOR_KBPS), audio_kbps >>

\* video_kbps = int(max(total_kbps - audio_kbps, 280)); return (video, audio)
compute_bitrates(d, target_bytes, audio_kbps) ==
    << IF TotalAbove(d, target_bytes, VIDEO_FLOOR_KBPS + audio_kbps)
         THEN TotalFloor(d, target_bytes) - audio_kbps
         ELSE VIDEO_FLOOR_KBPS,
       audio_kbps >>

\* A mutant of compute_audio_bitrate: the ceiling is not applied.
compute_audio_bitrate_noceiling(d, target_bytes, ceiling_kbps) ==
    IF TotalAbove(d, target_bytes, AUDIO_FLOOR_KBPS + CONTAINER_MARGIN_KBPS)
      THEN TotalFloor(d, target_bytes) - CONTAINER_MARGIN_KBPS
      ELSE AUDIO_FLOOR_KBPS

\* kbps = int(max(min(total_kbps - 16, ceiling_kbps), 64))
compute_audio_bitrate(d, target_bytes, ceiling_kbps) ==
    IF TotalAtLeast(d, target_bytes, ceiling_kbps + CONTAINER_MARGIN_KBPS)
      THEN Max(ceiling_kbps, AUDIO_FLOOR_KBPS)
      ELSE IF TotalAbove(d, target_bytes, AUDIO_FLOOR_KBPS + CONTAINER_MARGIN_KBPS)
             THEN TotalFloor(d, target_bytes) - CONTAINER_MARGIN_KBPS
             ELSE AUDIO_FLOOR_KBPS

\* A mutant of scaling_filter_for_bitrate: the boundaries are inclusive.
scaling_filter_for_bitrate_inclusive(video_kbps) ==
    IF video_kbps <= 500 THEN "640x360"
    ELSE IF video_kbps <= 900 THEN "854x480"
    ELSE "1280x720"

\* bot.py:128-134: the scale filter, named by its bounding box.
scaling_filter_for_bitrate(video_kbps) ==
    IF video_kbps < 500 THEN "640x360"
    ELSE IF video_kbps < 900 THEN "854x480"
    ELSE "1280x720"

\* ------------------------------------------------------------------------
\* bot.py:103-119: pick_direct_under_limit.  A format descriptor is a record
\* [format_id, acodec, vcodec, ext, filesize, filesize_approx, height];
\* acodec and vcodec are "" when absent.
\* ------------------------------------------------------------------------

\* size = f.get("filesize") or f.get("filesize_approx")
SizeOf(f) ==
    IF f.filesize # Null /\ f.filesize # Absent /\ f.filesize # 0
      THEN f.filesize
      ELSE f.filesize_approx

\* if size and size <= TARGET_BYTES
SizeFits(f) ==
    /\ SizeOf(f) # Null /\ SizeOf(f) # Absent /\ SizeOf(f) # 0
    /\ SizeOf(f) <= TARGET_BYTES

\* A mutant of IsCandidate: the size test is dropped.
IsCandidate_nosize(f) ==
    /\ f.acodec # "" /\ f.acodec # "none"
    /\ f.vcodec # "" /\ f.vcodec # "none"
    /\ f.ext = "mp4"

\* The three `continue`s and the size test of the loop.
IsCandidate(f) ==
    /\ f.acodec # "" /\ f.acodec # "none"
    /\ f.vcodec # "" /\ f.vcodec # "none"
    /\ f.ext = "mp4"
    /\ SizeFits(f)

\* key=lambda x: (x[0], x[1].get("height", 1e9))
SortKey(f) == << SizeOf(f), IF f.height = Absent THEN HEIGHT_DEFAULT ELSE f.height >>

\* Python's a < b on two keys raises TypeError when the sizes are equal and
\* exactly the heights differ with one of them None.
KeyRaises(a, b) ==
    /\ a[1] = b[1]
    /\ a[2] # b[2]
    /\ (a[2] = Null \/ b[2] = Null)

KeyLT(a, b) ==
    \/ a[1] < b[1]
    \/ (a[1] = b[1] /\ a[2] < b[2])

Reverse(s) == [i \in 1..Len(s) |-> s[Len(s) + 1 - i]]

\* list.sort() on fewer than 64 items: count_run finds the leading run
\* (reversed when strictly descending), binarysort inserts the rest.
RECURSIVE CountRun(_, _, _)
CountRun(s, n, desc) ==
    IF n = Len(s) THEN n
    ELSE IF KeyRaises(SortKey(s[n + 1]), SortKey(s[n])) THEN 0
    ELSE IF KeyLT(SortKey(s[n + 1]), SortKey(s[n])) = desc
           THEN CountRun(s, n + 1, desc)
           ELSE n

\* The insertion point (0-based) of pivot in the sorted prefix s[l+1..r],
\* or -1 when a comparison raises.
RECURSIVE BinSearch(_, _, _, _)
BinSearch(s, pivot, l, r) ==
    IF l >= r THEN l
    ELSE LET p == l + ((r - l) \div 2) IN
         IF KeyRaises(SortKey(pivot), SortKey(s[p + 1])) THEN 0 - 1
         ELSE IF KeyLT(SortKey(pivot), SortKey(s[p + 1]))
                THEN BinSearch(s, pivot, l, p)
                ELSE BinSearch(s, pivot, p + 1, r)

\* s with its first `sorted` items sorted: the rest inserted one by one.
\* The outcome is [raised, list].
RECURSIVE BinarySort(_, _)
BinarySort(s, sorted) ==
    IF sorted = Len(s) THEN [raised |-> FALSE, list |-> s]
    ELSE LET pivot == s[sorted + 1]
             at == BinSearch(s, pivot, 0, sorted)
         IN  IF at < 0 THEN [raised |-> TRUE, list |-> << >>]
             ELSE BinarySort(
                    SubSeq(s, 1, at) \o << pivot >> \o SubSeq(s, at + 1, sorted)
                      \o SubSeq(s, sorted + 2, Len(s)),
                    sorted + 1)

PySort(s) ==
    IF Len(s) < 2 THEN [raised |-> FALSE, list |-> s]
    ELSE IF KeyRaises(SortKey(s[2]), SortKey(s[1]))
           THEN [raised |-> TRUE, list |-> << >>]
    ELSE LET desc == KeyLT(SortKey(s[2]), SortKey(s[1]))
             run == CountRun(s, 2, desc)
         IN  IF run = 0 THEN [raised |-> TRUE, list |-> << >>]
             ELSE BinarySort(
                    IF desc
                      THEN Reverse(SubSeq(s, 1, run)) \o SubSeq(s, run + 1, Len(s))
                      ELSE s,
                    run)

Candidates(formats) == SelectSeq(formats, IsCandidate)

\* What the function returns when there is no candidate (Python None), and
\* what stands for the TypeError of the sort: descriptors no probe returns.
NoFormat ==
    [format_id |-> None, acodec |-> "", vcodec |-> "", ext |-> "",
     filesize |-> Absent, filesize_approx |-> Absent, height |-> Absent]

RaisedFormat == [NoFormat EXCEPT !.format_id = Raise]

pick_direct_under_limit(formats) ==
    LET candidates == Candidates(formats) IN
    IF candidates = << >> THEN NoFormat
    ELSE LET sorted == PySort(candidates) IN
         IF sorted.raised THEN RaisedFormat ELSE sorted.list[1]

\* ------------------------------------------------------------------------
\* State
\* ------------------------------------------------------------------------

VARIABLES
    \* --- one run of download_best / download_youtube_audio (bot.py) ---
    variant,      \* 1: download_best of bot.py:136, 2: its second copy, bot.py:397
    fn,           \* "best" | "audio": the function that runs; None before
    pc,           \* the external tool the run awaits, "idle" or "done"
    folder,       \* the temporary directory: file name -> size, Absent if none
    madeBy,       \* file name -> the tool invocation that wrote it last
    code,         \* the exit code the last tool returned (the local `code`)
    duration,     \* the local `duration`, in 1/DurDen s
    chosen,       \* format_id of the direct pick, or None
    input_path,   \* the local `input_path`
    v_kbps,       \* the locals of the transcode stage
    a_kbps,
    scale,
    kbps,         \* the locals of the MP3 stages
    kbps2,
    stages,       \* the stages entered, in order
    calls,        \* the external tool invocations made, in order
    result,       \* what the run returned or raised
    \* --- the handlers of bot.py ---
    now,          \* time.time(), in seconds
    last_call,    \* _last_call: user -> time, 0 for a user not in the dict
    pending_url,  \* context.user_data["pending_url"] of each user, or None
    tasks,        \* the handler runs so far, in order of their first step
    allowed_ids,  \* the ids the environment variable ALLOWED_IDS lists
    \* --- one run of handle_media_request (handlers.py, media_bot.py) ---
    m_variant,    \* "handlers" | "media_bot": the file the handler is from
    m_allowed,    \* ALLOWED_IDS of that file
    m_req,        \* the message: user, has_url, is_tiktok, as_audio
    m_pc,         \* the await the handler is at, "idle" or "done"
    m_files,      \* the temporary directory: file name -> size, Absent if none
    m_processed,  \* the local processed_file: a file name, or None
    m_sent,       \* the attachment sent: [name, size, as], or NotSent
    m_result,     \* what run_blocking_cmd returned for yt-dlp, or NOT_RUN
    m_status,     \* the text of the status message
    \* --- the pure functions, applied to drawn inputs ---
    ar_in,        \* [duration, target_bytes, audio_kbps, ceiling_kbps]
    ar_out,       \* [op, arg, value] of the last call
    \* --- pick_direct_under_limit, applied to drawn format lists ---
    pk_in,        \* the argument `formats`
    pk_out,       \* [called, value]: the descriptor returned
    \* --- one handler of bot.py around its pipeline run ---
    h_pc,         \* "idle", "pipeline", "delivering", "ended"
    h_handler,    \* "handle_url" or "on_choice"
    h_tmpdir,     \* the TemporaryDirectory: "none", "held", "released"
    h_diag,       \* what a failing tool of this run prints on stderr
    h_log,        \* what the handler did, in order: [ev, kind, detail]
    h_exit,       \* how the handler ended, None until then
    h_orphan,     \* a tool process the handler left behind: "none", "running", "exited"
    \* --- probe_info, applied to drawn tool outputs ---
    pr_in,        \* [code, out, err]: what run_cmd returned
    pr_out,       \* [called, raised, value]
    \* --- the working directories of the requests in flight ---
    ws_dir,       \* request -> its directory; NotStarted before, Released after
    ws_last,      \* [req, dir, name]: the path a request last wrote, scanned or sent
    \* --- the yt-dlp command lines (bot.py:68-75, downloader.py:10-33) ---
    cm_in,        \* [builder, op, url, as_audio]: the call drawn
    cm_out,       \* [built, args]: the argument list built, once built
    \* --- load_config (config.py:15-32, media_bot.py:41-62) ---
    cf_in,        \* [key, env]: the key and the value of its environment variable
    cf_out        \* [called, config_py, media_bot]: what each copy stores for the key

pipeVars ==
    << variant, fn, pc, folder, madeBy, code, duration, chosen, input_path,
       v_kbps, a_kbps, scale, kbps, kbps2, stages, calls, result >>

\* ------------------------------------------------------------------------
\* The pipeline's world: file names, sizes, probe outputs
\* ------------------------------------------------------------------------

\* title is "t"; the names the two tools can leave in the folder.
DIRECT_OUT == "t.mp4"

OUTPUT_PATH == "t.fit.mp4"

AUDIO_OUT == "t.m4a"

MP3_OUT == "t.mp3"

MP3_OUT2 == "t.fit.mp3"

\* name.endswith(".mp4")
Mp4Names == {"t.mp4", "t.fit.mp4"}

\* name.lower().endswith((".mp4", ".mkv", ".webm", ".mov"))
VideoNames == {"t.mp4", "t.mkv", "t.webm", "t.fit.mp4"}

\* name.lower().endswith((".m4a", ".webm", ".mp3", ".mp4", ".mkv", ".opus", ".mov"))
AudioNames == {"t.m4a", "t.webm", "t.mp3", "t.mp4", "t.mkv", "t.opus", "t.fit.mp4", "t.fit.mp3"}

\* "t.flv" stands for an output no scan recognises.
FileNames == VideoNames \cup AudioNames \cup {"t.flv"}

\* What "bv*+ba/b" merged to mp4, and "bestaudio/b", can be named.
BestOutNames == {"t.mp4", "t.webm", "t.flv"}

AudioFetchNames == {"t.m4a", "t.mp3", "t.webm", "t.flv"}

\* File sizes a tool may produce: around the limit, and Scenario A's 120 MB.
FileSizes == {MiB, TARGET_BYTES, TARGET_BYTES + 1, 120 * MiB}

\* Probed durations in 1/DurDen s: null, negative, zero, below one second,
\* one second, durations that land in each resolution tier, and one so long
\* that the audio bitrate comes close to its floor and one at which it is
\* the floor.
ProbeDurations ==
    {Null, 0 - 3 * DurDen, 0, 1, DurDen, 60 * DurDen, 720 * DurDen, 3600 * DurDen,
     7200 * DurDen, 10800 * DurDen}

Fmt(id, ac, vc, ext, fs, fsa, h) ==
    [format_id |-> id, acodec |-> ac, vcodec |-> vc, ext |-> ext,
     filesize |-> fs, filesize_approx |-> fsa, height |-> h]

\* Descriptors a probe may list: muxed mp4 that fits (two heights, one with a
\* null height), muxed mp4 over the limit, one of unknown size, an
\* approximate size only, video-only, audio-only, a muxed webm.
ProbeFormats ==
    { Fmt("18", "mp4a", "avc1", "mp4", 10 * MiB, Absent, 360),
      Fmt("22", "mp4a", "avc1", "mp4", 10 * MiB, Absent, 720),
      Fmt("n", "mp4a", "avc1", "mp4", 10 * MiB, Absent, Null),
      Fmt("59", "mp4a", "avc1", "mp4", TARGET_BYTES + 1, Absent, 480),
      Fmt("u", "mp4a", "avc1", "mp4", Null, Absent, 240),
      Fmt("a", "mp4a", "avc1", "mp4", Null, TARGET_BYTES, 144),
      Fmt("137", "none", "avc1", "mp4", 5 * MiB, Absent, 1080),
      Fmt("140", "mp4a", "none", "m4a", 3 * MiB, Absent, Absent),
      Fmt("43", "vorbis", "vp8", "webm", 4 * MiB, Absent, 360) }

RECURSIVE SeqsUpTo(_, _)
SeqsUpTo(S, n) ==
    IF n = 0 THEN {<< >>}
    ELSE SeqsUpTo(S, n - 1)
           \cup {Append(q, x) : q \in {r \in SeqsUpTo(S, n - 1) : Len(r) = n - 1}, x \in S}

ProbeFormatLists == SeqsUpTo(ProbeFormats, MaxFormats)

ExitCodes == {0, 1}

NoResult == [kind |-> "none", path |-> None, note |-> None, error |-> None]

\* A mutant of Success: the note is dropped.
Success_nonote(path, note) == [kind |-> "success", path |-> path, note |-> None, error |-> None]

Success(path, note) == [kind |-> "success", path |-> path, note |-> note, error |-> None]

Failure(err) == [kind |-> "failure", path |-> None, note |-> None, error |-> err]

NOTE_COMPRESSED == "video compressed to fit limit"

NOTE_AUDIO_ONLY == "converted to audio-only"

Invocation(tool, op, in, out, rate) ==
    [tool |-> tool, op |-> op, input |-> in, output |-> out, kbps |-> rate]

Last(s) == s[Len(s)]

Exists(dir, name) == dir[name] # Absent

\* ------------------------------------------------------------------------
\* The external tools.  A tool that exits 0 has written its output; one that
\* fails leaves the folder as it was or leaves a truncated (empty) output.
\* ------------------------------------------------------------------------

Written(dir, name, size) == [dir EXCEPT ![name] = size]

\* The folders ffmpeg may leave behind: it refuses to write onto its input.
FfmpegFolders(dir, in, out, rc, size) ==
    IF rc = 0 THEN {Written(dir, out, size)}
    ELSE IF in = out THEN {dir}
    ELSE {dir, Written(dir, out, 0)}

FfmpegCodes(in, out) == IF in = out THEN {1} ELSE ExitCodes

\* The folders yt-dlp may leave behind when it exits 0 and names its output
\* `name`: the file written, an existing file of that name kept as it is
\* (yt-dlp does not overwrite a finished download) or, for name = None,
\* nothing written.
YtdlpFolders(dir, name, size) ==
    IF name = None THEN {dir}
    ELSE IF Exists(dir, name) THEN {dir, Written(dir, name, size)}
    ELSE {Written(dir, name, size)}

Stamp(by, old, new) ==
    [n \in FileNames |-> IF new[n] # old[n] THEN by ELSE madeBy[n]]

\* ------------------------------------------------------------------------
\* The size tests of bot.py, one per line that compares with TARGET_BYTES
\* ------------------------------------------------------------------------

\* bot.py:158  os.path.getsize(path) <= TARGET_BYTES
DirectFits(size) == size <= TARGET_BYTES

\* bot.py:178  os.path.getsize(input_path) <= TARGET_BYTES
BestFits(size) == size <= TARGET_BYTES

\* A mutant of TranscodeOver: the comparison is off by one byte.
TranscodeOver_off_by_one(size) == size > TARGET_BYTES + 1

\* bot.py:198  os.path.getsize(output_path) > TARGET_BYTES
TranscodeOver(size) == size > TARGET_BYTES

\* A mutant of AudioFallbackOk: the exit code is not looked at.
AudioFallbackOk_ignores_code(rc, size) == size <= TARGET_BYTES

\* bot.py:203  code == 0 and os.path.getsize(audio_out) <= TARGET_BYTES
AudioFallbackOk(rc, size) == rc = 0 /\ size <= TARGET_BYTES

\* A mutant of Mp3AsIs: the extension is not looked at.
Mp3AsIs_any_name(name, size) == size <= TARGET_BYTES

\* bot.py:230  input_path.lower().endswith(".mp3") and getsize <= TARGET_BYTES
Mp3AsIs(name, size) == name \in {"t.mp3", "t.fit.mp3"} /\ size <= TARGET_BYTES

\* bot.py:243  os.path.getsize(mp3_out) > TARGET_BYTES
Mp3Over(size) == size > TARGET_BYTES

\* A mutant of RetryFails: the exit code is not looked at.
RetryFails_ignores_code(rc, size) == size > TARGET_BYTES

\* bot.py:248  code_rc != 0 or os.path.getsize(mp3_out2) > TARGET_BYTES
RetryFails(rc, size) == rc # 0 \/ size > TARGET_BYTES

\* A mutant of RetryBitrate: the halved bitrate is not held at the floor.
RetryBitrate_nofloor(k) == k \div 2

\* A mutant of RetryBitrate: the bitrate is not halved.
RetryBitrate_same(k) == Max(AUDIO_FLOOR_KBPS, k)

\* bot.py:244  kbps2 = max(64, kbps // 2)
RetryBitrate(k) == Max(AUDIO_FLOOR_KBPS, k \div 2)

\* bot.py:182-183  if duration <= 0: duration = 30.0
VideoDuration(d) == IF d <= 0 THEN VIDEO_DEFAULT_DURATION * DurDen ELSE d

\* bot.py:233-234  if duration <= 0: duration = 60.0
AudioDuration(d) == IF d <= 0 THEN AUDIO_DEFAULT_DURATION * DurDen ELSE d

\* bot.py:143  duration = float(info.get("duration") or 0)
ProbedDuration(d) == IF d = Null \/ d = Absent THEN 0 ELSE d

\* ------------------------------------------------------------------------
\* download_best (bot.py:136-207; second copy bot.py:397-481)
\* ------------------------------------------------------------------------

\* A mutant of Finish: the result is set but the function does not return.
Finish_falls_through(res) ==
    /\ result' = res
    /\ UNCHANGED pc

\* return, or raise: the run is over.
Finish(res) ==
    /\ pc' = "done"
    /\ result' = res

\* The caller awaits download_best(url, folder): probe_info starts yt-dlp -J.
StartBest(v) ==
    /\ pc = "idle"
    /\ variant' = v
    /\ fn' = "best"
    /\ pc' = "probing"
    /\ stages' = << "PROBE" >>
    /\ calls' = << Invocation("yt-dlp", "probe", None, None, 0) >>
    /\ UNCHANGED << folder, madeBy, code, duration, chosen, input_path,
                    v_kbps, a_kbps, scale, kbps, kbps2, result >>

\* bot.py:141-151 and 162-164: the probe returns; pick the direct format and
\* start its download, or start the best download when there is none.
ProbeReturnsBest(rc, d, formats) ==
    /\ pc = "probing" /\ fn = "best"
    /\ code' = rc
    /\ UNCHANGED << variant, fn, folder, madeBy, input_path, v_kbps, a_kbps,
                    scale, kbps, kbps2 >>
    /\ IF rc # 0
         THEN /\ Finish(Failure("yt-dlp probe failed"))
              /\ UNCHANGED << duration, chosen, stages, calls >>
         ELSE LET c == pick_direct_under_limit(formats) IN
              /\ duration' = ProbedDuration(d)
              /\ chosen' = IF c = RaisedFormat THEN chosen ELSE c.format_id
              /\ IF c = RaisedFormat
                   THEN /\ Finish(Failure("TypeError"))
                        /\ stages' = Append(stages, "TRY_DIRECT")
                        /\ UNCHANGED calls
                   ELSE IF c # NoFormat
                   THEN /\ pc' = "direct_fetching"
                        /\ stages' = Append(stages, "TRY_DIRECT")
                        /\ calls' = Append(calls,
                              Invocation("yt-dlp", "direct", None, DIRECT_OUT, 0))
                        /\ UNCHANGED result
                   ELSE /\ pc' = "best_fetching"
                        /\ stages' = stages \o << "TRY_DIRECT", "TRY_BEST" >>
                        /\ calls' = Append(calls,
                              Invocation("yt-dlp", "best", None, None, 0))
                        /\ UNCHANGED result

\* What the code after the direct fetch does with the folder it finds:
\* return a fitting .mp4, or go on to the best download.  The second copy
\* (bot.py:423-432) raises when no video file is there at all.
AfterDirect(dir) ==
    IF \E n \in Mp4Names : Exists(dir, n) /\ DirectFits(dir[n])
      THEN \E n \in Mp4Names :
             /\ Exists(dir, n) /\ DirectFits(dir[n])
             /\ Finish(Success(n, None))
             /\ UNCHANGED << stages, calls >>
      ELSE IF variant = 2 /\ ~ \E n \in VideoNames : Exists(dir, n)
      THEN /\ Finish(Failure("Failed to locate downloaded file."))
           /\ UNCHANGED << stages, calls >>
      ELSE /\ pc' = "best_fetching"
           /\ stages' = Append(stages, "TRY_BEST")
           /\ calls' = Append(calls, Invocation("yt-dlp", "best", None, None, 0))
           /\ UNCHANGED result

\* bot.py:152-164: the direct fetch returns.
DirectFetchReturns(rc, name, size) ==
    /\ pc = "direct_fetching"
    /\ code' = rc
    /\ UNCHANGED << variant, fn, duration, chosen, input_path, v_kbps, a_kbps,
                    scale, kbps, kbps2 >>
    /\ IF rc # 0
         THEN /\ Finish(Failure("yt-dlp direct download failed"))
              /\ UNCHANGED << folder, madeBy, stages, calls >>
         ELSE \E dir \in YtdlpFolders(folder, name, size) :
              /\ folder' = dir
              /\ madeBy' = Stamp("direct", folder, dir)
              /\ AfterDirect(dir)

\* bot.py:181-194: compute the bitrates and start the transcode of `in`.
StartTranscode(in) ==
    LET d == VideoDuration(duration)
        rates == compute_bitrates(d, TARGET_BYTES, DEFAULT_AUDIO_KBPS)
    IN  /\ duration' = d
        /\ v_kbps' = rates[1]
        /\ a_kbps' = rates[2]
        /\ scale' = scaling_filter_for_bitrate(rates[1])
        /\ pc' = "transcoding"
        /\ stages' = Append(stages, "TRANSCODE")
        /\ calls' = Append(calls,
              Invocation("ffmpeg", "transcode", in, OUTPUT_PATH, rates[1]))
        /\ UNCHANGED result

\* bot.py:165-194: the best download returns; the first video file the scan
\* meets (os.listdir gives no order) is the input.
BestFetchReturns(rc, name, size) ==
    /\ pc = "best_fetching"
    /\ code' = rc
    /\ UNCHANGED << variant, fn, chosen, kbps, kbps2 >>
    /\ IF rc # 0
         THEN /\ Finish(Failure("yt-dlp best download failed"))
              /\ UNCHANGED << folder, madeBy, duration, input_path, v_kbps,
                              a_kbps, scale, stages, calls >>
         ELSE \E dir \in YtdlpFolders(folder, name, size) :
              /\ folder' = dir
              /\ madeBy' = Stamp("best", folder, dir)
              /\ IF ~ \E n \in VideoNames : Exists(dir, n)
                   THEN /\ Finish(Failure("Downloaded file not found."))
                        /\ UNCHANGED << duration, input_path, v_kbps, a_kbps,
                                        scale, stages, calls >>
                   ELSE \E n \in VideoNames :
                        /\ Exists(dir, n)
                        /\ input_path' = n
                        /\ IF BestFits(dir[n])
                             THEN /\ Finish(Success(n, None))
                                  /\ UNCHANGED << duration, v_kbps, a_kbps,
                                                  scale, stages, calls >>
                             ELSE StartTranscode(n)

\* bot.py:194-207: the transcode returns; start the audio extraction from
\* input_path when the output is over the limit.
TranscodeReturns(rc, size) ==
    /\ pc = "transcoding"
    /\ code' = rc
    /\ UNCHANGED << variant, fn, duration, chosen, input_path, v_kbps, a_kbps,
                    scale, kbps, kbps2 >>
    /\ \E dir \in FfmpegFolders(folder, input_path, OUTPUT_PATH, rc, size) :
         /\ folder' = dir
         /\ madeBy' = Stamp("transcode", folder, dir)
         /\ IF rc # 0
              THEN /\ Finish(Failure("ffmpeg transcode failed"))
                   /\ UNCHANGED << stages, calls >>
              ELSE IF TranscodeOver(dir[OUTPUT_PATH])
              THEN /\ pc' = "audio_extracting"
                   /\ stages' = Append(stages, "AUDIO_FALLBACK")
                   /\ calls' = Append(calls,
                         Invocation("ffmpeg", "extract_audio", input_path,
                                    AUDIO_OUT, DEFAULT_AUDIO_KBPS))
                   /\ UNCHANGED result
              ELSE /\ Finish(Success(OUTPUT_PATH, NOTE_COMPRESSED))
                   /\ UNCHANGED << stages, calls >>

\* bot.py:202-206: the audio extraction returns.
AudioExtractReturns(rc, size) ==
    /\ pc = "audio_extracting"
    /\ code' = rc
    /\ UNCHANGED << variant, fn, duration, chosen, input_path, v_kbps, a_kbps,
                    scale, kbps, kbps2, stages, calls >>
    /\ \E dir \in FfmpegFolders(folder, input_path, AUDIO_OUT, rc, size) :
         /\ folder' = dir
         /\ madeBy' = Stamp("extract_audio", folder, dir)
         /\ IF AudioFallbackOk(rc, dir[AUDIO_OUT])
              THEN Finish(Success(AUDIO_OUT, NOTE_AUDIO_ONLY))
              ELSE Finish(Failure("cannot fit"))

\* ------------------------------------------------------------------------
\* download_youtube_audio (bot.py:209-251)
\* ------------------------------------------------------------------------

StartAudio ==
    /\ pc = "idle"
    /\ fn' = "audio"
    /\ pc' = "probing"
    /\ stages' = << "PROBE" >>
    /\ calls' = << Invocation("yt-dlp", "probe", None, None, 0) >>
    /\ UNCHANGED << variant, folder, madeBy, code, duration, chosen, input_path,
                    v_kbps, a_kbps, scale, kbps, kbps2, result >>

\* bot.py:211-218: the probe returns; start the bestaudio download.
ProbeReturnsAudio(rc, d) ==
    /\ pc = "probing" /\ fn = "audio"
    /\ code' = rc
    /\ UNCHANGED << variant, fn, folder, madeBy, chosen, input_path, v_kbps,
                    a_kbps, scale, kbps, kbps2 >>
    /\ IF rc # 0
         THEN /\ Finish(Failure("yt-dlp probe failed"))
              /\ UNCHANGED << duration, stages, calls >>
         ELSE /\ duration' = ProbedDuration(d)
              /\ pc' = "audio_fetching"
              /\ stages' = Append(stages, "FETCH_AUDIO")
              /\ calls' = Append(calls, Invocation("yt-dlp", "bestaudio", None, None, 0))
              /\ UNCHANGED result

\* bot.py:233-239: compute the bitrate and start the MP3 encode of `in`.
StartMp3(in) ==
    LET d == AudioDuration(duration)
        k == compute_audio_bitrate(d, TARGET_BYTES, DEFAULT_CEILING_KBPS)
    IN  /\ duration' = d
        /\ kbps' = k
        /\ pc' = "mp3_encoding"
        /\ stages' = Append(stages, "ENCODE_MP3")
        /\ calls' = Append(calls, Invocation("ffmpeg", "mp3", in, MP3_OUT, k))
        /\ UNCHANGED result

\* bot.py:218-239: the bestaudio download returns.
AudioFetchReturns(rc, name, size) ==
    /\ pc = "audio_fetching"
    /\ code' = rc
    /\ UNCHANGED << variant, fn, chosen, v_kbps, a_kbps, scale, kbps2 >>
    /\ IF rc # 0
         THEN /\ Finish(Failure("yt-dlp audio download failed"))
              /\ UNCHANGED << folder, madeBy, duration, input_path, kbps,
                              stages, calls >>
         ELSE \E dir \in YtdlpFolders(folder, name, size) :
              /\ folder' = dir
              /\ madeBy' = Stamp("bestaudio", folder, dir)
              /\ IF ~ \E n \in AudioNames : Exists(dir, n)
                   THEN /\ Finish(Failure("Audio file not found after download."))
                        /\ UNCHANGED << duration, input_path, kbps, stages, calls >>
                   ELSE \E n \in AudioNames :
                        /\ Exists(dir, n)
                        /\ input_path' = n
                        /\ IF Mp3AsIs(n, dir[n])
                             THEN /\ Finish(Success(n, None))
                                  /\ UNCHANGED << duration, kbps, stages, calls >>
                             ELSE StartMp3(n)

\* bot.py:239-251: the first encode returns; halve the bitrate and encode
\* once more when the output is over the limit.
Mp3EncodeReturns(rc, size) ==
    /\ pc = "mp3_encoding"
    /\ rc \in FfmpegCodes(input_path, MP3_OUT)
    /\ code' = rc
    /\ UNCHANGED << variant, fn, duration, chosen, input_path, v_kbps, a_kbps,
                    scale, kbps >>
    /\ \E dir \in FfmpegFolders(folder, input_path, MP3_OUT, rc, size) :
         /\ folder' = dir
         /\ madeBy' = Stamp("mp3", folder, dir)
         /\ IF rc # 0
              THEN /\ Finish(Failure("ffmpeg mp3 encode failed"))
                   /\ UNCHANGED << kbps2, stages, calls >>
              ELSE IF Mp3Over(dir[MP3_OUT])
              THEN /\ kbps2' = RetryBitrate(kbps)
                   /\ pc' = "mp3_retrying"
                   /\ stages' = Append(stages, "RETRY_LOWER")
                   /\ calls' = Append(calls,
                         Invocation("ffmpeg", "mp3", input_path, MP3_OUT2,
                                    RetryBitrate(kbps)))
                   /\ UNCHANGED result
              ELSE /\ Finish(Success(MP3_OUT, None))
                   /\ UNCHANGED << kbps2, stages, calls >>

\* A mutant of Mp3RetryReturns: a retry that fails is followed by another
\* retry (up to six calls) instead of the error.
Mp3RetryReturns_again(rc, size) ==
    /\ pc = "mp3_retrying"
    /\ code' = rc
    /\ UNCHANGED << variant, fn, duration, chosen, input_path, v_kbps, a_kbps,
                    scale, kbps, kbps2, stages >>
    /\ \E dir \in FfmpegFolders(folder, input_path, MP3_OUT2, rc, size) :
         /\ folder' = dir
         /\ madeBy' = Stamp("mp3_retry", folder, dir)
         /\ IF RetryFails(rc, dir[MP3_OUT2]) /\ Len(calls) < 6
              THEN /\ calls' = Append(calls, Last(calls))
                   /\ UNCHANGED << pc, result >>
              ELSE IF RetryFails(rc, dir[MP3_OUT2])
              THEN Finish(Failure("audio cannot fit")) /\ UNCHANGED calls
              ELSE Finish(Success(MP3_OUT2, None)) /\ UNCHANGED calls

\* bot.py:247-250: the second encode returns.
Mp3RetryReturns(rc, size) ==
    /\ pc = "mp3_retrying"
    /\ code' = rc
    /\ UNCHANGED << variant, fn, duration, chosen, input_path, v_kbps, a_kbps,
                    scale, kbps, kbps2, stages, calls >>
    /\ \E dir \in FfmpegFolders(folder, input_path, MP3_OUT2, rc, size) :
         /\ folder' = dir
         /\ madeBy' = Stamp("mp3_retry", folder, dir)
         /\ IF RetryFails(rc, dir[MP3_OUT2])
              THEN Finish(Failure("audio cannot fit"))
              ELSE Finish(Success(MP3_OUT2, None))

\* ------------------------------------------------------------------------
\* Spec: one pipeline run
\* ------------------------------------------------------------------------

PipeInit ==
    /\ variant = 1
    /\ fn = None
    /\ pc = "idle"
    /\ folder = [n \in FileNames |-> Absent]
    /\ madeBy = [n \in FileNames |-> None]
    /\ code = 0
    /\ duration = 0
    /\ chosen = None
    /\ input_path = None
    /\ v_kbps = 0
    /\ a_kbps = 0
    /\ scale = None
    /\ kbps = 0
    /\ kbps2 = 0
    /\ stages = << >>
    /\ calls = << >>
    /\ result = NoResult

\* ------------------------------------------------------------------------
\* The handlers of bot.py: handle_url (266-310) and on_choice (312-351).
\* A handler runs as a task of the event loop: its code up to its first
\* await of the pipeline is one step, the pipeline's return with the delivery
\* and the `finally` block another, and other tasks may run in between.
\* ------------------------------------------------------------------------

routerVars == << now, last_call, pending_url, tasks, allowed_ids >>

Users == {"a", "z"}

\* bot.py:39-41
ALLOWED_IDS == allowed_ids

\* What the variable may list: nobody, or user "a".
AllowedIdSets == {{}, {"a"}}

\* A mutant of IsAllowed: an empty list admits everybody.
IsAllowed_open_when_empty(u) == ALLOWED_IDS = {} \/ u \in ALLOWED_IDS

\* bot.py:256, 268 and 316  user_id not in ALLOWED_IDS
IsAllowed(u) == u \in ALLOWED_IDS

\* Message texts: a TikTok link, two YouTube links, a text without a link.
Texts == {"https://tiktok.com/1", "https://youtube.com/1", "https://youtube.com/2", "hello"}

\* bot.py:277  re.search(r"https?://", text)
HasUrl(text) == text # "hello"

\* A mutant of is_youtube: no link is taken for a YouTube link.
is_youtube_never(text) == FALSE

\* bot.py:53-55
is_youtube(text) == text \in {"https://youtube.com/1", "https://youtube.com/2"}

ChoiceData == {"yt:video", "yt:audio"}

REPLY_PRIVATE == "private bot"

REPLY_RETRY_LATER == "a download is running, try again in a few seconds"

REPLY_BAD_LINK == "send a valid link"

REPLY_CHOOSE == "video or audio?"

REPLY_NO_URL == "link not found, send it again"

REPLY_WORKING == "working on it"

REPLY_FILE == "file"

REPLY_ERROR == "error"

\* The clock at start: any time at which the first cooldown window is over.
StartTime == 100 * RATE_LIMIT_SECONDS

\* bot.py:272 and 320  now - _last_call.get(user_id, 0) < RATE_LIMIT_SECONDS
CooldownActive(u) == now - last_call[u] < RATE_LIMIT_SECONDS

NewTask(u, handler, text, data, prompt) ==
    [user |-> u, handler |-> handler, text |-> text, data |-> data,
     prompt |-> prompt, url |-> None, fn |-> None, status |-> "new",
     reply |-> None]

Running == {i \in 1..Len(tasks) : tasks[i].status = "running"}

Prompts == {i \in 1..Len(tasks) : tasks[i].status = "prompted"}

\* A mutant of HandleUrlRejected: the rejection restarts the window.
HandleUrlRejected_stamps(u, text) ==
    /\ tasks' = Append(tasks,
          [NewTask(u, "handle_url", text, None, 0) EXCEPT
             !.status = "cooldown", !.reply = REPLY_RETRY_LATER])
    /\ last_call' = [last_call EXCEPT ![u] = now]
    /\ UNCHANGED pending_url

\* bot.py:271-274: the cooldown branch of handle_url.
HandleUrlRejected(u, text) ==
    /\ tasks' = Append(tasks,
          [NewTask(u, "handle_url", text, None, 0) EXCEPT
             !.status = "cooldown", !.reply = REPLY_RETRY_LATER])
    /\ UNCHANGED << last_call, pending_url >>

\* A mutant of OnChoiceRejected: the rejection drops the stored link.
OnChoiceRejected_pops(u, data, p) ==
    /\ tasks' = Append(tasks,
          [NewTask(u, "on_choice", None, data, p) EXCEPT
             !.status = "cooldown", !.reply = REPLY_RETRY_LATER])
    /\ pending_url' = [pending_url EXCEPT ![u] = None]
    /\ UNCHANGED last_call

\* bot.py:319-322: the cooldown branch of on_choice.
OnChoiceRejected(u, data, p) ==
    /\ tasks' = Append(tasks,
          [NewTask(u, "on_choice", None, data, p) EXCEPT
             !.status = "cooldown", !.reply = REPLY_RETRY_LATER])
    /\ UNCHANGED << last_call, pending_url >>

\* The functions that run an external tool.
ToolCalls == {"run_cmd", "run_blocking_cmd", "reencode_to_mp4", "convert_to_mp3"}

\* A mutant of ToolCallYields: the tool is run with a blocking call.
ToolCallYields_blocking(f) == FALSE

\* Whether the event loop is free while the tool runs.  bot.py:77-84 awaits
\* asyncio.create_subprocess_shell and proc.communicate(); utils.py:11-14
\* awaits loop.run_in_executor around subprocess.run; downloader.py:38 and
\* 52 await asyncio.to_thread around ffmpeg's run.
ToolCallYields(f) == f \in ToolCalls

\* A handler that is inside a tool call which does not yield holds the loop:
\* no other handler can take a step until it returns.  The pipelines of
\* bot.py run their tools through run_cmd.
LoopBlocked == \E i \in Running : ~ ToolCallYields("run_cmd")

\* bot.py:266-298: handle_url up to its await of download_best.
HandleUrl(u, text) ==
    /\ Len(tasks) < MaxUpdates
    /\ UNCHANGED << now, allowed_ids >>
    /\ LET t == NewTask(u, "handle_url", text, None, 0) IN
       IF ~ IsAllowed(u)
         THEN /\ tasks' = Append(tasks,
                   [t EXCEPT !.status = "unauthorized", !.reply = REPLY_PRIVATE])
              /\ UNCHANGED << last_call, pending_url >>
       ELSE IF CooldownActive(u)
         THEN HandleUrlRejected(u, text)
       ELSE IF ~ HasUrl(text)
         THEN /\ tasks' = Append(tasks,
                   [t EXCEPT !.status = "invalid", !.reply = REPLY_BAD_LINK])
              /\ UNCHANGED << last_call, pending_url >>
       ELSE IF is_youtube(text)
         THEN /\ pending_url' = [pending_url EXCEPT ![u] = text]
              /\ tasks' = Append(tasks,
                   [t EXCEPT !.status = "prompted", !.reply = REPLY_CHOOSE])
              /\ UNCHANGED last_call
       ELSE /\ last_call' = [last_call EXCEPT ![u] = now]
            /\ tasks' = Append(tasks,
                 [t EXCEPT !.status = "running", !.reply = REPLY_WORKING,
                           !.url = text, !.fn = "best"])
            /\ UNCHANGED pending_url

\* bot.py:312-338: on_choice, for a press by u of a button of prompt p, up to
\* its await of the pipeline.
OnChoice(u, data, p) ==
    /\ Len(tasks) < MaxUpdates
    /\ p \in Prompts
    /\ UNCHANGED << now, allowed_ids >>
    /\ LET t == NewTask(u, "on_choice", None, data, p) IN
       IF ~ IsAllowed(u)
         THEN /\ tasks' = Append(tasks,
                   [t EXCEPT !.status = "unauthorized", !.reply = REPLY_PRIVATE])
              /\ UNCHANGED << last_call, pending_url >>
       ELSE IF CooldownActive(u)
         THEN OnChoiceRejected(u, data, p)
       ELSE IF pending_url[u] = None
         THEN /\ tasks' = Append(tasks,
                   [t EXCEPT !.status = "no_url", !.reply = REPLY_NO_URL])
              /\ UNCHANGED << last_call, pending_url >>
       ELSE /\ last_call' = [last_call EXCEPT ![u] = now]
            /\ tasks' = Append(tasks,
                 [t EXCEPT !.status = "running", !.reply = REPLY_WORKING,
                           !.url = pending_url[u],
                           !.fn = IF data = "yt:audio" THEN "audio" ELSE "best"])
            /\ UNCHANGED pending_url

\* A mutant of RunEnds: the `finally` block does not stamp _last_call.
RunEnds_nostamp(i, outcome) ==
    /\ i \in Running
    /\ UNCHANGED << now, allowed_ids >>
    /\ tasks' = [tasks EXCEPT
          ![i].status = outcome,
          ![i].reply = IF outcome = "delivered" THEN REPLY_FILE ELSE REPLY_ERROR]
    /\ UNCHANGED last_call
    /\ pending_url' =
          IF tasks[i].handler = "on_choice"
            THEN [pending_url EXCEPT ![tasks[i].user] = None]
            ELSE pending_url

\* bot.py:298-310 and 333-351: the pipeline of task i returns or raises, the
\* file is sent or the error is reported, and the `finally` block runs.
RunEnds(i, outcome) ==
    /\ i \in Running
    /\ UNCHANGED << now, allowed_ids >>
    /\ tasks' = [tasks EXCEPT
          ![i].status = outcome,
          ![i].reply = IF outcome = "delivered" THEN REPLY_FILE ELSE REPLY_ERROR]
    /\ last_call' = [last_call EXCEPT ![tasks[i].user] = now]
    /\ pending_url' =
          IF tasks[i].handler = "on_choice"
            THEN [pending_url EXCEPT ![tasks[i].user] = None]
            ELSE pending_url

RunOutcomes == {"delivered", "pipeline_failed", "delivery_failed"}

\* Time passes.
Tick ==
    /\ now < StartTime + MaxTicks * TickSeconds
    /\ now' = now + TickSeconds
    /\ UNCHANGED << last_call, pending_url, tasks, allowed_ids >>

RouterStart(ids) ==
    /\ now = StartTime
    /\ last_call = [u \in Users |-> 0]
    /\ pending_url = [u \in Users |-> None]
    /\ tasks = << >>
    /\ allowed_ids = ids

RouterInit == RouterStart({"a"})

\* ------------------------------------------------------------------------
\* handle_media_request (handlers.py:22-88, media_bot.py:232-306), with
\* build_yt_dlp_cmd (downloader.py:10-33), reencode_to_mp4, convert_to_mp3
\* (downloader.py:35-60) and is_valid_file (utils.py:25-30).
\* ------------------------------------------------------------------------

mediaVars ==
    << m_variant, m_allowed, m_req, m_pc, m_files, m_processed, m_sent, m_status,
       m_result >>

\* config.py:7
MAX_FILE_SIZE_MB == 70

\* config.py:8
MIN_VALID_FILE_SIZE_BYTES == 200 * 1024

\* config.py:9
FORCE_REENCODE_TT == TRUE

MediaNames == {"m.mp4", "m.webm", "m.m4a", "m.mp3", "m_fixed.mp4"}

\* processed_file.suffix.lower() in (".mp3", ".m4a", ".aac", ".ogg")
AudioSuffix(name) == name \in {"m.m4a", "m.mp3"}

\* processed_file.suffix.lower() not in (".mp3", ".m4a")
NeedsMp3(name) == name \notin {"m.m4a", "m.mp3"}

MediaSizes ==
    {MIN_VALID_FILE_SIZE_BYTES, MIN_VALID_FILE_SIZE_BYTES + 1,
     MAX_FILE_SIZE_MB * MiB, MAX_FILE_SIZE_MB * MiB + 1, 120 * MiB}

\* A mutant of is_valid_file: any file that exists is valid.
is_valid_file_any_size(dir, name) == dir[name] # Absent

\* utils.py:25-30
is_valid_file(dir, name) == dir[name] # Absent /\ dir[name] > MIN_VALID_FILE_SIZE_BYTES

\* handlers.py:17-20, media_bot.py:219-223
is_authorized(allowed, user) == allowed = {} \/ user \in allowed

\* downloader.py:10-33: the format selector of the command line.
FMT_TIKTOK == "mp4*+m4a/best[ext=mp4]/best"

FMT_VIDEO == "b[filesize<MAX_FILE_SIZE_MB M]/bv*+ba/best"

FMT_AUDIO == "bestaudio[abr<=128k]/bestaudio"

build_yt_dlp_cmd(is_tiktok, as_audio) ==
    IF is_tiktok THEN FMT_TIKTOK
    ELSE IF ~ as_audio THEN FMT_VIDEO
    ELSE FMT_AUDIO

\* What yt-dlp can write for a selector.  FMT_VIDEO takes a muxed format of
\* a declared size below the limit when there is one and the best formats,
\* of any size, otherwise; the other selectors do not look at the size: no
\* selector bounds the size of the file written.
YtdlpNames(fmt) ==
    IF fmt = FMT_TIKTOK THEN {"m.mp4"}
    ELSE IF fmt = FMT_VIDEO THEN {"m.mp4", "m.webm"}
    ELSE {"m.m4a", "m.webm", "m.mp3"}

\* yt-dlp has not been run.
NOT_RUN == "not run"

\* run_blocking_cmd returns stdout, or None when the tool exits non-zero.
Stdouts == {None, "", "[download] 100%"}

\* handlers.py:49  if not result_output;  media_bot.py:258  if result is None
DownloadFailed(v, stdout) ==
    IF v = "handlers" THEN stdout = None \/ stdout = "" ELSE stdout = None

NotSent == [name |-> None, size |-> 0, as |-> None]

MediaRequests ==
    [user : {"a", "z"}, has_url : BOOLEAN, is_tiktok : BOOLEAN, as_audio : BOOLEAN]

\* handlers.py:22-47: the checks, then the await of yt-dlp.
MediaStart(v, allowed, req) ==
    /\ m_pc = "idle"
    /\ req.is_tiktok => req.has_url
    /\ m_variant' = v
    /\ m_allowed' = allowed
    /\ m_req' = req
    /\ UNCHANGED << m_files, m_processed, m_sent, m_result >>
    /\ IF ~ is_authorized(allowed, req.user)
         THEN m_pc' = "done" /\ m_status' = "not allowed"
         ELSE IF ~ req.has_url
         THEN m_pc' = "done" /\ m_status' = "send a valid link"
         ELSE m_pc' = "downloading" /\ m_status' = "downloading"

\* handlers.py:60-69: after a step that set processed_file to `name` in
\* folder `dir`, the next await: the MP3 conversion or the send.
AfterReencode(name) ==
    IF ~ m_req.is_tiktok /\ m_req.as_audio /\ NeedsMp3(name)
      THEN m_pc' = "converting"
      ELSE m_pc' = "sending"

\* handlers.py:47-66: yt-dlp returns; pick the newest valid file (the
\* files' mtimes are the tool's, so any valid file can be the newest).
MediaYtdlpReturns(stdout, name, size) ==
    /\ m_pc = "downloading"
    /\ name \in YtdlpNames(build_yt_dlp_cmd(m_req.is_tiktok, m_req.as_audio))
    /\ UNCHANGED << m_variant, m_allowed, m_req, m_sent >>
    /\ m_result' = stdout
    /\ IF DownloadFailed(m_variant, stdout)
         THEN /\ m_pc' = "done"
              /\ m_status' = "download failed"
              /\ UNCHANGED << m_files, m_processed >>
         ELSE LET dir == [m_files EXCEPT ![name] = size] IN
              /\ m_files' = dir
              /\ IF ~ \E n \in MediaNames : is_valid_file(dir, n)
                   THEN /\ m_pc' = "done"
                        /\ m_status' = "invalid output"
                        /\ UNCHANGED m_processed
                   ELSE \E n \in MediaNames :
                        /\ is_valid_file(dir, n)
                        /\ m_processed' = n
                        /\ UNCHANGED m_status
                        /\ IF m_req.is_tiktok /\ FORCE_REENCODE_TT
                             THEN m_pc' = "reencoding"
                             ELSE AfterReencode(n)

\* handlers.py:61-64 with downloader.py:35-47: the re-encode returns;
\* written = FALSE is ffmpeg raising.
MediaReencodeReturns(written, size) ==
    /\ m_pc = "reencoding"
    /\ UNCHANGED << m_variant, m_allowed, m_req, m_sent, m_status, m_result >>
    /\ LET dir == IF written THEN [m_files EXCEPT !["m_fixed.mp4"] = size] ELSE m_files
           ok == written /\ is_valid_file(dir, "m_fixed.mp4")
           processed == IF ok THEN "m_fixed.mp4" ELSE m_processed
       IN  /\ m_files' = dir
           /\ m_processed' = processed
           /\ AfterReencode(processed)

\* handlers.py:66-69 with downloader.py:49-60: the MP3 conversion returns.
MediaConvertReturns(written, size) ==
    /\ m_pc = "converting"
    /\ UNCHANGED << m_variant, m_allowed, m_req, m_sent, m_status, m_result >>
    /\ LET dir == IF written THEN [m_files EXCEPT !["m.mp3"] = size] ELSE m_files
           ok == written /\ is_valid_file(dir, "m.mp3")
       IN  /\ m_files' = dir
           /\ m_processed' = IF ok THEN "m.mp3" ELSE m_processed
           /\ m_pc' = "sending"

\* handlers.py:71-84: reply_audio or reply_video of processed_file returns.
MediaSendReturns(ok) ==
    /\ m_pc = "sending"
    /\ UNCHANGED << m_variant, m_allowed, m_req, m_files, m_processed, m_result >>
    /\ m_pc' = "done"
    /\ IF ok
         THEN /\ m_sent' = [name |-> m_processed, size |-> m_files[m_processed],
                            as |-> IF AudioSuffix(m_processed) THEN "audio" ELSE "video"]
              /\ m_status' = "deleted"
         ELSE /\ m_status' = "send error"
              /\ UNCHANGED m_sent

MediaInit ==
    /\ m_variant = "handlers"
    /\ m_allowed = {}
    /\ m_req = [user |-> "a", has_url |-> FALSE, is_tiktok |-> FALSE, as_audio |-> FALSE]
    /\ m_pc = "idle"
    /\ m_files = [n \in MediaNames |-> Absent]
    /\ m_processed = None
    /\ m_sent = NotSent
    /\ m_result = NOT_RUN
    /\ m_status = None

\* ------------------------------------------------------------------------
\* The pure functions applied to drawn inputs
\* ------------------------------------------------------------------------

arithVars == << ar_in, ar_out >>

\* Durations in 1/DurDen s: negative, zero, half a unit, one second, just
\* above it, a minute, an hour.
ArithDurations ==
    {0 - 3 * DurDen, 0, 1, DurDen, DurDen + 1, 60 * DurDen, 3600 * DurDen}

\* Target sizes: one byte, the sizes around total_kbps = 280 + 96 at one
\* second, a megabyte, the default limit, a gigabyte.
ArithTargets ==
    {1, 46999, 47000, 47001, 47125, 1000000, TARGET_BYTES, 1000000000}

ArithAudioKbps == {0, DEFAULT_AUDIO_KBPS, 128}

ArithCeilings == {32, AUDIO_FLOOR_KBPS, 128, DEFAULT_CEILING_KBPS}

TierInputs == {0, VIDEO_FLOOR_KBPS, 499, 500, 501, 899, 900, 901, 7548, 9690}

NoCall == [op |-> None, arg |-> 0, value |-> << >>]

CallComputeBitrates ==
    /\ ar_out' = [op |-> "compute_bitrates", arg |-> 0,
                  value |-> compute_bitrates(ar_in.duration, ar_in.target_bytes,
                                             ar_in.audio_kbps)]
    /\ UNCHANGED ar_in

CallComputeAudioBitrate ==
    /\ ar_out' = [op |-> "compute_audio_bitrate", arg |-> 0,
                  value |-> << compute_audio_bitrate(ar_in.duration, ar_in.target_bytes,
                                                     ar_in.ceiling_kbps) >>]
    /\ UNCHANGED ar_in

CallScalingFilter(v) ==
    /\ ar_out' = [op |-> "scaling_filter_for_bitrate", arg |-> v,
                  value |-> << scaling_filter_for_bitrate(v) >>]
    /\ UNCHANGED ar_in

ArithIdle ==
    /\ ar_in = [duration |-> DurDen, target_bytes |-> TARGET_BYTES,
                audio_kbps |-> DEFAULT_AUDIO_KBPS, ceiling_kbps |-> DEFAULT_CEILING_KBPS]
    /\ ar_out = NoCall

ArithInit ==
    /\ ar_in \in [duration : ArithDurations, target_bytes : ArithTargets,
                  audio_kbps : ArithAudioKbps, ceiling_kbps : ArithCeilings]
    /\ ar_out = NoCall

\* ------------------------------------------------------------------------
\* pick_direct_under_limit applied to drawn format lists
\* ------------------------------------------------------------------------

pickVars == << pk_in, pk_out >>

\* Descriptors of the drawn lists: the ones a probe lists, one without an
\* acodec key, one whose size is 0 and a smaller muxed mp4 without a height
\* key.
PickFormats ==
    ProbeFormats \cup
      { Fmt("x", "", "avc1", "mp4", 2 * MiB, Absent, 360),
        Fmt("0", "mp4a", "avc1", "mp4", 0, Absent, 360),
        Fmt("17", "mp4a", "avc1", "mp4", 5 * MiB, Absent, Absent) }

PickFormatLists == SeqsUpTo(PickFormats, MaxPickFormats)

NotCalled == [called |-> FALSE, value |-> NoFormat, calls |-> 0]

\* A mutant of FormatsAfterPick: the filter removes the rejected descriptors
\* from the caller's list.
FormatsAfterPick_filtered(formats) == Candidates(formats)

\* The caller's list after the call.  bot.py:105-118: the loop only reads
\* `formats` and each descriptor; append and sort act on the local list
\* `candidates`, whose items are (size, f) tuples.
FormatsAfterPick(formats) == formats

\* One call of pick_direct_under_limit on the caller's list.
CallPick ==
    /\ pk_out.calls < MaxPickCalls
    /\ pk_out' = [called |-> TRUE, value |-> pick_direct_under_limit(pk_in),
                  calls |-> pk_out.calls + 1]
    /\ pk_in' = FormatsAfterPick(pk_in)

PickIdle ==
    /\ pk_in = << >>
    /\ pk_out = NotCalled

PickInit ==
    /\ pk_in \in PickFormatLists
    /\ pk_out = NotCalled

\* ------------------------------------------------------------------------
\* One handler of bot.py around its pipeline run: handle_url (292-310) and
\* on_choice (327-351)
\* ------------------------------------------------------------------------

handlerVars == << h_pc, h_handler, h_tmpdir, h_diag, h_log, h_exit, h_orphan >>

\* What a failing yt-dlp or ffmpeg may print.
Diagnostics == {"ERROR: Video unavailable", "ERROR: HTTP Error 403 at /home/bot/cookies.txt"}

\* bot.py:91, 154, 167, 196, 220, 241: the errors whose text ends with
\* {err.strip() or out.strip()}.
DiagnosticErrors ==
    {"yt-dlp probe failed", "yt-dlp direct download failed",
     "yt-dlp best download failed", "ffmpeg transcode failed",
     "yt-dlp audio download failed", "ffmpeg mp3 encode failed"}

Event(ev) == [ev |-> ev, kind |-> None, detail |-> None]

\* bot.py:308 and 348: the text is the prefix and str(e); str(e) is the
\* error's kind and, for the errors above, the tool's output.
ErrorReply(err, diag) ==
    [ev |-> "error", kind |-> err,
     detail |-> IF err \in DiagnosticErrors THEN diag ELSE None]

\* A mutant of ReportFailure: the exception is swallowed.
ReportFailure_silent(err, diag) == << >>

\* bot.py:307-308 and 347-348: except Exception: one reply_text.
ReportFailure(err, diag) == << ErrorReply(err, diag) >>

ERR_TELEGRAM == "telegram error"

EmptyFolder == [n \in FileNames |-> Absent]

pipeVarsButFolder ==
    << variant, fn, pc, madeBy, code, duration, chosen, input_path,
       v_kbps, a_kbps, scale, kbps, kbps2, stages, calls, result >>

\* bot.py:292-298 and 327-338: the handler stamps the window, tells the
\* caller it is working, enters the TemporaryDirectory and awaits the
\* pipeline: download_best for handle_url and for the video button,
\* download_youtube_audio for the audio button.
HandlerStartsRun(h, f, v) ==
    /\ h_pc = "idle" /\ m_pc = "idle"
    /\ h = "handle_url" => f = "best"
    /\ IF f = "audio" THEN StartAudio ELSE StartBest(v)
    /\ h_pc' = "pipeline"
    /\ h_handler' = h
    /\ h_tmpdir' = "held"
    /\ h_log' = << Event("working"), Event("acquire") >>
    /\ UNCHANGED << h_diag, h_exit, h_orphan >>

\* bot.py:298-304 and 333-342: the pipeline returned a path; the handler
\* awaits reply_video, reply_document or reply_audio inside the `with`.
HandlerPipelineReturns ==
    /\ h_pc = "pipeline" /\ pc = "done" /\ result.kind = "success"
    /\ h_pc' = "delivering"
    /\ UNCHANGED << pipeVars, h_handler, h_tmpdir, h_diag, h_log, h_exit, h_orphan >>

\* bot.py:296-310 and 330-351: the pipeline raised; the `with` removes the
\* directory, `except Exception` replies, `finally` runs.
HandlerPipelineRaises(diag) ==
    /\ h_pc = "pipeline" /\ pc = "done" /\ result.kind = "failure"
    /\ folder' = EmptyFolder
    /\ h_tmpdir' = "released"
    /\ h_diag' = IF result.error \in DiagnosticErrors THEN diag ELSE None
    /\ h_log' = h_log \o << Event("release") >> \o ReportFailure(result.error, diag)
    /\ h_pc' = "ended"
    /\ h_exit' = "pipeline_failure"
    /\ UNCHANGED << pipeVarsButFolder, h_handler, h_orphan >>

\* bot.py:304-310 and 336-351: the send returns, then the `with` removes the
\* directory; or the send raises, the `with` removes the directory and
\* `except Exception` replies.
HandlerDeliveryReturns(ok) ==
    /\ h_pc = "delivering"
    /\ folder' = EmptyFolder
    /\ h_tmpdir' = "released"
    /\ h_log' = IF ok
                  THEN h_log \o << Event("file"), Event("release") >>
                  ELSE h_log \o << Event("release") >> \o ReportFailure(ERR_TELEGRAM, None)
    /\ h_pc' = "ended"
    /\ h_exit' = IF ok THEN "success" ELSE "delivery_failure"
    /\ UNCHANGED << pipeVarsButFolder, h_handler, h_diag, h_orphan >>

\* The handler's task is cancelled at its await: CancelledError leaves the
\* `with`, which removes the directory, passes `except Exception`, and
\* `finally` runs.  run_cmd (bot.py:77-84) awaits proc.communicate() with
\* no handler around it: a process it started is left running.
HandlerCancelled ==
    /\ \/ h_pc = "pipeline" /\ pc # "done"
       \/ h_pc = "delivering"
    /\ folder' = EmptyFolder
    /\ h_tmpdir' = "released"
    /\ h_log' = Append(h_log, Event("release"))
    /\ h_pc' = "ended"
    /\ h_exit' = "cancelled"
    /\ h_orphan' = IF h_pc = "pipeline" THEN "running" ELSE "none"
    /\ UNCHANGED << pipeVarsButFolder, h_handler, h_diag >>

\* The process left running ends.  Its output path is inside the removed
\* directory: the tool fails to write, or creates the path again and writes.
OrphanExits(wrote, name, size) ==
    /\ h_orphan = "running"
    /\ h_orphan' = "exited"
    /\ folder' = IF wrote THEN Written(folder, name, size) ELSE folder
    /\ UNCHANGED << pipeVarsButFolder, h_pc, h_handler, h_tmpdir, h_diag, h_log, h_exit >>

HandlerInit ==
    /\ h_pc = "idle"
    /\ h_handler = None
    /\ h_tmpdir = "none"
    /\ h_diag = None
    /\ h_log = << >>
    /\ h_exit = None
    /\ h_orphan = "none"

\* ------------------------------------------------------------------------
\* probe_info (bot.py:86-96) applied to drawn outputs of `yt-dlp -J`
\* ------------------------------------------------------------------------

probeVars == << pr_in, pr_out >>

\* A JSON record of the tool: _type ("" when the key is absent), id, and
\* the entries of a playlist.
Doc(type, id, entries) == [type |-> type, id |-> id, entries |-> entries]

VideoDoc(id) == Doc("video", id, << >>)

NoDoc == Doc("", None, << >>)

\* What -J prints on exit 0: one item (with and without a _type key), a
\* playlist of two items, a playlist without entries, a playlist whose first
\* entry is itself a playlist (a channel's tabs).
ProbeDocs ==
    { VideoDoc("v1"),
      Doc("", "v2", << >>),
      Doc("playlist", "p1", << VideoDoc("v1"), VideoDoc("v2") >>),
      Doc("playlist", "p2", << >>),
      Doc("playlist", "p3", << Doc("playlist", "p1", << VideoDoc("v1") >>),
                               VideoDoc("v2") >>) }

ProbeErrTexts == {"", "\n", "ERROR: Video unavailable\n"}

ProbeOutTexts == {"", " ", "Sign in to confirm your age\n"}

\* str.strip() on the texts above
Strip(s) ==
    CASE s = "\n" -> ""
      [] s = " " -> ""
      [] s = "ERROR: Video unavailable\n" -> "ERROR: Video unavailable"
      [] s = "Sign in to confirm your age\n" -> "Sign in to confirm your age"
      [] OTHER -> s

\* bot.py:94-95  if data.get("_type") == "playlist" and data.get("entries")
Unwrap(data) ==
    IF data.type = "playlist" /\ data.entries # << >>
      THEN data.entries[1]
      ELSE data

ProbeNotCalled == [called |-> FALSE, raised |-> FALSE, detail |-> None, value |-> NoDoc]

\* bot.py:89-96
probe_info(code_, out, err, doc) ==
    IF code_ # 0
      THEN [called |-> TRUE, raised |-> TRUE,
            detail |-> IF Strip(err) # "" THEN Strip(err) ELSE Strip(out),
            value |-> NoDoc]
      ELSE [called |-> TRUE, raised |-> FALSE, detail |-> None, value |-> Unwrap(doc)]

CallProbeInfo ==
    /\ ~ pr_out.called
    /\ pr_out' = probe_info(pr_in.code, pr_in.out, pr_in.err, pr_in.doc)
    /\ UNCHANGED pr_in

ProbeIdle ==
    /\ pr_in = [code |-> 0, out |-> "", err |-> "", doc |-> NoDoc]
    /\ pr_out = ProbeNotCalled

ProbeInit ==
    /\ pr_in \in [code : ExitCodes, out : ProbeOutTexts, err : ProbeErrTexts,
                  doc : ProbeDocs]
    /\ pr_out = ProbeNotCalled

\* ------------------------------------------------------------------------
\* The working directories of requests in flight
\* ------------------------------------------------------------------------

wsVars == << ws_dir, ws_last >>

Requests == 1..MaxRequests

\* The names mkdtemp can give: always one more than there are requests.
DirNames == 1..(MaxRequests + 1)

NotStarted == 0

Released == 0 - 1

InFlight == {r \in Requests : ws_dir[r] \in DirNames}

\* The directories that exist: those of the requests in flight.
HeldDirs == {ws_dir[r] : r \in InFlight}

\* The names requests derive from the title: the same for the same item.
TitleNames == {"t.mp4", "t.fit.mp4"}

NoPath == [req |-> 0, dir |-> 0, name |-> None]

\* A mutant of FreshDirs: every request works in one shared directory.
FreshDirs_shared(held) == {1}

\* tempfile.TemporaryDirectory(): mkdtemp creates a directory that did not
\* exist, under a name of its choice.
FreshDirs(held) == DirNames \ held

\* bot.py:297 and 331, handlers.py:37: the handler enters its `with`.
Acquire(r, d) ==
    /\ ws_dir[r] = NotStarted
    /\ d \in FreshDirs(HeldDirs)
    /\ ws_dir' = [ws_dir EXCEPT ![r] = d]
    /\ UNCHANGED ws_last

\* bot.py:150, 155-157, 165, 171-173, 185, 200 and handlers.py:38-40, 53:
\* every path is os.path.join(folder, name) or found by a scan of folder,
\* where folder is the directory of the request.
Touch(r, name) ==
    /\ r \in InFlight
    /\ ws_last' = [req |-> r, dir |-> ws_dir[r], name |-> name]
    /\ UNCHANGED ws_dir

\* The handler leaves its `with`: the directory is removed.
Release(r) ==
    /\ r \in InFlight
    /\ ws_dir' = [ws_dir EXCEPT ![r] = Released]
    /\ UNCHANGED ws_last

WorkspaceInit ==
    /\ ws_dir = [r \in Requests |-> NotStarted]
    /\ ws_last = NoPath

\* ------------------------------------------------------------------------
\* The yt-dlp command lines: yt_dlp_base with its callers (bot.py:65-75, 88,
\* 151, 164, 217) and build_yt_dlp_cmd (downloader.py:10-33)
\* ------------------------------------------------------------------------

cmdVars == << cm_in, cm_out >>

\* Text is a sequence of one-character strings, so that lower() and `in`
\* are computed on the characters.
UpperLetters == << "C", "E", "I", "K", "M", "N", "O", "R", "S", "T", "U", "Y" >>

LowerLetters == << "c", "e", "i", "k", "m", "n", "o", "r", "s", "t", "u", "y" >>

\* str.lower(), for the capitals the drawn links hold
lower(text) ==
    [i \in 1..Len(text) |->
       IF \E k \in 1..Len(UpperLetters) : UpperLetters[k] = text[i]
         THEN LowerLetters[CHOOSE k \in 1..Len(UpperLetters) : UpperLetters[k] = text[i]]
         ELSE text[i]]

\* needle in text
Contains(needle, text) ==
    \E i \in 0..(Len(text) - Len(needle)) :
       SubSeq(text, i + 1, i + Len(needle)) = needle

\* text.endswith(suffix)
EndsWith(text, suffix) ==
    /\ Len(suffix) <= Len(text)
    /\ SubSeq(text, Len(text) - Len(suffix) + 1, Len(text)) = suffix

HTTPS == << "h", "t", "t", "p", "s", ":", "/", "/" >>

TIKTOK_COM == << "t", "i", "k", "t", "o", "k", ".", "c", "o", "m" >>

VT_TIKTOK_COM == << "v", "t", "." >> \o TIKTOK_COM

TT_TIKTOK_COM == << "t", "t", "." >> \o TIKTOK_COM

DOT_COM == << ".", "c", "o", "m" >>

Link(host, rest) == [host |-> host, rest |-> rest]

\* The text of the message: the link as the user typed it.
UrlText(link) == HTTPS \o link.host \o link.rest

\* The links drawn: TikTok under three host names and one spelt with
\* capitals, three other sites, and a link to another site whose query
\* string mentions tiktok.com.
Links ==
    { Link(<< "w", "w", "w", "." >> \o TIKTOK_COM, << "/", "1" >>),
      Link(VT_TIKTOK_COM, << "/", "1" >>),
      Link(TIKTOK_COM, << "/", "2" >>),
      Link(<< "w", "w", "w", ".", "T", "i", "k", "T", "o", "k" >> \o DOT_COM, << "/", "1" >>),
      Link(<< "y", "o", "u", "t", "u", "b", "e" >> \o DOT_COM, << "/", "1" >>),
      Link(<< "y", "o", "u", "t", "u", ".", "b", "e" >>, << "/", "1" >>),
      Link(<< "x" >> \o DOT_COM, << "/", "1" >>),
      Link(<< "x" >> \o DOT_COM, << "/", "?", "u", "=" >> \o TIKTOK_COM) }

\* The link points at the short-video platform: its host, which is not
\* case-sensitive, is tiktok.com or a name under it.
OnTikTok(link) ==
    \/ lower(link.host) = TIKTOK_COM
    \/ EndsWith(lower(link.host), << "." >> \o TIKTOK_COM)

\* bot.py:65-66
is_tiktok(url) ==
    \/ Contains(TIKTOK_COM, lower(url))
    \/ Contains(VT_TIKTOK_COM, lower(url))
    \/ Contains(TT_TIKTOK_COM, lower(url))

TIKTOK_HD == << "--extractor-args", "tiktok:hd=1" >>

\* bot.py:68-75
yt_dlp_base(url) ==
    << "yt-dlp", "--no-call-home", "--no-warnings" >>
      \o (IF is_tiktok(url)
            THEN TIKTOK_HD \o << "--referer", "https://www.tiktok.com/" >>
            ELSE << >>)

BotOps == {"probe", "direct", "best", "bestaudio"}

\* bot.py:88, 151, 164 and 217: the command line of each yt-dlp call, as the
\* shell splits it; "<...>" stands for a quoted argument.
BotCommand(op, url) ==
    yt_dlp_base(url) \o
      (CASE op = "probe"     -> << "-J", "<url>" >>
         [] op = "direct"    -> << "-f", "<fmt_id>", "-o", "<out_tmpl>", "<url>" >>
         [] op = "best"      -> << "-f", "bv*+ba/b", "-o", "<out_tmpl>",
                                   "--merge-output-format", "mp4", "<url>" >>
         [] op = "bestaudio" -> << "-f", "bestaudio/b", "-o", "<out_tmpl>", "<url>" >>)

\* downloader.py:12  is_tiktok = "tiktok.com" in url
UrlHoldsTikTok(url) == Contains(TIKTOK_COM, url)

\* downloader.py:10-33, the whole argument list.
YtdlpArgs(url, as_audio, cookies) ==
    IF UrlHoldsTikTok(url)
      THEN << "yt-dlp", "-f", build_yt_dlp_cmd(TRUE, as_audio),
              "--merge-output-format", "mp4", "--no-warnings",
              "--concurrent-fragments", "4", "--retries", "10",
              "--fragment-retries", "10", "--socket-timeout", "30",
              "--user-agent", "Mozilla/5.0",
              "--add-header", "Referer:https://www.tiktok.com/",
              "-o", "<out_path>", "<url>" >>
      ELSE << "yt-dlp", "-f", build_yt_dlp_cmd(FALSE, as_audio),
              "--no-warnings", "--restrict-filenames",
              "--concurrent-fragments", "4", "--retries", "10",
              "--fragment-retries", "10", "--socket-timeout", "30",
              "--geo-bypass", "--encoding", "utf-8",
              "--user-agent", "Mozilla/5.0",
              "--extractor-args", "youtube:player_client=android",
              "-o", "<out_path>", "<url>" >>
           \o (IF cookies THEN << "--cookies", "<YT_COOKIE_PATH>" >> ELSE << >>)

NotBuilt == [built |-> FALSE, args |-> << >>]

CommandCalls ==
    [builder : {"bot"}, op : BotOps, link : Links,
     as_audio : {FALSE}, cookies : {FALSE}]
    \cup
    [builder : {"downloader"}, op : {"fetch"}, link : Links,
     as_audio : BOOLEAN, cookies : BOOLEAN]

\* A pipeline of bot.py builds the command line of one of its yt-dlp calls.
CallYtDlpBase ==
    /\ cm_in.builder = "bot"
    /\ ~ cm_out.built
    /\ cm_out' = [built |-> TRUE, args |-> BotCommand(cm_in.op, UrlText(cm_in.link))]
    /\ UNCHANGED cm_in

\* handle_media_request builds its command line.
CallBuildYtDlpCmd ==
    /\ cm_in.builder = "downloader"
    /\ ~ cm_out.built
    /\ cm_out' = [built |-> TRUE,
                  args |-> YtdlpArgs(UrlText(cm_in.link), cm_in.as_audio, cm_in.cookies)]
    /\ UNCHANGED cm_in

CmdIdle ==
    /\ cm_in = [builder |-> "bot", op |-> "probe",
                link |-> Link(TIKTOK_COM, << "/", "2" >>),
                as_audio |-> FALSE, cookies |-> FALSE]
    /\ cm_out = NotBuilt

CmdInit ==
    /\ cm_in \in CommandCalls
    /\ cm_out = NotBuilt

\* ------------------------------------------------------------------------
\* load_config (config.py:15-32, media_bot.py:41-62)
\* ------------------------------------------------------------------------

cfgVars == << cf_in, cf_out >>

\* config.py:12, media_bot.py:37
TIMEOUT_SECONDS == 120

\* A Python value: a bool, an int or a str; "raise" stands for the
\* ValueError that leaves load_config.
BoolV(b) == [type |-> "bool", b |-> b, n |-> 0, s |-> << >>]

IntV(n) == [type |-> "int", b |-> FALSE, n |-> n, s |-> << >>]

StrV(s) == [type |-> "str", b |-> FALSE, n |-> 0, s |-> s]

ValueError == [type |-> "raise", b |-> FALSE, n |-> 0, s |-> << >>]

NoValue == [type |-> "none", b |-> FALSE, n |-> 0, s |-> << >>]

ConfigKeys ==
    {"MAX_FILE_SIZE_MB", "MIN_VALID_FILE_SIZE_BYTES", "FORCE_REENCODE_TT",
     "YT_COOKIE_PATH", "YT_COOKIES_B64", "TIMEOUT_SECONDS"}

\* config.py:6-13, media_bot.py:31-38 (config.json is absent)
DEFAULT_CONFIG ==
    [k \in ConfigKeys |->
       CASE k = "MAX_FILE_SIZE_MB"          -> IntV(MAX_FILE_SIZE_MB)
         [] k = "MIN_VALID_FILE_SIZE_BYTES" -> IntV(MIN_VALID_FILE_SIZE_BYTES)
         [] k = "FORCE_REENCODE_TT"         -> BoolV(FORCE_REENCODE_TT)
         [] k = "YT_COOKIE_PATH"            -> StrV(<< "/", "c" >>)
         [] k = "YT_COOKIES_B64"            -> StrV(<< >>)
         [] k = "TIMEOUT_SECONDS"           -> IntV(TIMEOUT_SECONDS)]

\* os.getenv(key) is None
NoEnv == << "unset" >>

\* The values the environment variable may hold.
EnvValues ==
    { NoEnv,
      << "t", "r", "u", "e" >>, << "T", "r", "u", "e" >>, << "T", "R", "U", "E" >>,
      << "f", "a", "l", "s", "e" >>, << "y", "e", "s" >>, << "o", "n" >>,
      << "1" >>, << "0" >>, << " ", "1", " " >>, << "7", "0" >>, << "-", "5" >>,
      << >> }

Digits == << "0", "1", "2", "3", "4", "5", "6", "7", "8", "9" >>

IsDigit(c) == \E d \in 1..Len(Digits) : Digits[d] = c

DigitValue(c) == (CHOOSE d \in 1..Len(Digits) : Digits[d] = c) - 1

\* str.strip() of blanks
RECURSIVE StripBlanks(_)
StripBlanks(text) ==
    IF text = << >> THEN text
    ELSE IF Head(text) = " " THEN StripBlanks(Tail(text))
    ELSE IF text[Len(text)] = " " THEN StripBlanks(SubSeq(text, 1, Len(text) - 1))
    ELSE text

RECURSIVE DigitsValue(_, _)
DigitsValue(text, acc) ==
    IF text = << >> THEN acc
    ELSE DigitsValue(Tail(text), 10 * acc + DigitValue(Head(text)))

\* int(text): blanks around the number and one sign are accepted; anything
\* else, the empty string included, raises ValueError.  [ok, n]
PyInt(text) ==
    LET t == StripBlanks(text)
        signed == t # << >> /\ Head(t) \in {"-", "+"}
        digits == IF signed THEN Tail(t) ELSE t
    IN  IF digits = << >> \/ \E i \in 1..Len(digits) : ~ IsDigit(digits[i])
          THEN [ok |-> FALSE, n |-> 0]
          ELSE [ok |-> TRUE,
                n |-> IF signed /\ Head(t) = "-"
                        THEN 0 - DigitsValue(digits, 0)
                        ELSE DigitsValue(digits, 0)]

\* isinstance(v, int): bool is a subclass of int
IsInstanceInt(v) == v.type \in {"int", "bool"}

\* isinstance(v, bool)
IsInstanceBool(v) == v.type = "bool"

\* config.py:22-31: what load_config stores for `key`, or the ValueError
\* that int() raises out of it.
load_config(key, env_val) ==
    LET default == DEFAULT_CONFIG[key] IN
    IF env_val = NoEnv THEN default
    ELSE IF IsInstanceInt(default)
      THEN IF PyInt(env_val).ok THEN IntV(PyInt(env_val).n) ELSE ValueError
    ELSE IF IsInstanceBool(default)
      THEN BoolV(lower(env_val) \in {<< "t", "r", "u", "e" >>, << "1" >>})
    ELSE StrV(env_val)

\* media_bot.py:49-61: the copy of load_config in media_bot.py.
media_bot_load_config(key, env_val) ==
    LET default == DEFAULT_CONFIG[key] IN
    IF env_val = NoEnv THEN default
    ELSE IF IsInstanceBool(default)
      THEN BoolV(lower(env_val) \in
                   {<< "1" >>, << "t", "r", "u", "e" >>, << "y", "e", "s" >>, << "o", "n" >>})
    ELSE IF IsInstanceInt(default)
      THEN IF PyInt(env_val).ok THEN IntV(PyInt(env_val).n) ELSE default
    ELSE StrV(env_val)

NotLoaded == [config_py |-> NoValue, media_bot |-> NoValue]

\* `CONFIG = load_config()` at the import of config.py
CallLoadConfig ==
    /\ cf_out.config_py = NoValue
    /\ cf_out' = [cf_out EXCEPT !.config_py = load_config(cf_in.key, cf_in.env)]
    /\ UNCHANGED cf_in

\* `CONFIG = load_config()` at the import of media_bot.py
CallMediaBotLoadConfig ==
    /\ cf_out.media_bot = NoValue
    /\ cf_out' = [cf_out EXCEPT !.media_bot = media_bot_load_config(cf_in.key, cf_in.env)]
    /\ UNCHANGED cf_in

CfgIdle ==
    /\ cf_in = [key |-> "FORCE_REENCODE_TT", env |-> NoEnv]
    /\ cf_out = NotLoaded

CfgInit ==
    /\ cf_in \in [key : ConfigKeys, env : EnvValues]
    /\ cf_out = NotLoaded

\* ------------------------------------------------------------------------
\* Specifications
\* ------------------------------------------------------------------------

vars ==
    << pipeVars, routerVars, mediaVars, arithVars, pickVars, handlerVars,
       probeVars, wsVars, cmdVars, cfgVars >>

Init ==
    /\ PipeInit /\ RouterInit /\ MediaInit /\ ArithIdle /\ PickIdle /\ HandlerInit
    /\ ProbeIdle /\ WorkspaceInit /\ CmdIdle /\ CfgIdle

Next ==
    \/ /\ \E v \in {1, 2} : StartBest(v)
       /\ UNCHANGED << routerVars, mediaVars, arithVars, pickVars, handlerVars, probeVars, wsVars, cmdVars, cfgVars >>
    \/ /\ pc = "probing" /\ fn = "best"
       /\ \E rc \in ExitCodes, d \in ProbeDurations, formats \in ProbeFormatLists :
            ProbeReturnsBest(rc, d, formats)
       /\ UNCHANGED << routerVars, mediaVars, arithVars, pickVars, handlerVars, probeVars, wsVars, cmdVars, cfgVars >>
    \/ /\ pc = "direct_fetching"
       /\ \E rc \in ExitCodes, name \in {DIRECT_OUT, None}, size \in FileSizes :
            DirectFetchReturns(rc, name, size)
       /\ UNCHANGED << routerVars, mediaVars, arithVars, pickVars, handlerVars, probeVars, wsVars, cmdVars, cfgVars >>
    \/ /\ pc = "best_fetching"
       /\ \E rc \in ExitCodes, name \in BestOutNames \cup {None}, size \in FileSizes :
            BestFetchReturns(rc, name, size)
       /\ UNCHANGED << routerVars, mediaVars, arithVars, pickVars, handlerVars, probeVars, wsVars, cmdVars, cfgVars >>
    \/ /\ pc = "transcoding"
       /\ \E rc \in ExitCodes, size \in FileSizes : TranscodeReturns(rc, size)
       /\ UNCHANGED << routerVars, mediaVars, arithVars, pickVars, handlerVars, probeVars, wsVars, cmdVars, cfgVars >>
    \/ /\ pc = "audio_extracting"
       /\ \E rc \in ExitCodes, size \in FileSizes : AudioExtractReturns(rc, size)
       /\ UNCHANGED << routerVars, mediaVars, arithVars, pickVars, handlerVars, probeVars, wsVars, cmdVars, cfgVars >>
    \/ /\ StartAudio
       /\ UNCHANGED << routerVars, mediaVars, arithVars, pickVars, handlerVars, probeVars, wsVars, cmdVars, cfgVars >>
    \/ /\ pc = "probing" /\ fn = "audio"
       /\ \E rc \in ExitCodes, d \in ProbeDurations : ProbeReturnsAudio(rc, d)
       /\ UNCHANGED << routerVars, mediaVars, arithVars, pickVars, handlerVars, probeVars, wsVars, cmdVars, cfgVars >>
    \/ /\ pc = "audio_fetching"
       /\ \E rc \in ExitCodes, name \in AudioFetchNames \cup {None}, size \in FileSizes :
            AudioFetchReturns(rc, name, size)
       /\ UNCHANGED << routerVars, mediaVars, arithVars, pickVars, handlerVars, probeVars, wsVars, cmdVars, cfgVars >>
    \/ /\ pc = "mp3_encoding"
       /\ \E rc \in ExitCodes, size \in FileSizes : Mp3EncodeReturns(rc, size)
       /\ UNCHANGED << routerVars, mediaVars, arithVars, pickVars, handlerVars, probeVars, wsVars, cmdVars, cfgVars >>
    \/ /\ pc = "mp3_retrying"
       /\ \E rc \in ExitCodes, size \in FileSizes : Mp3RetryReturns(rc, size)
       /\ UNCHANGED << routerVars, mediaVars, arithVars, pickVars, handlerVars, probeVars, wsVars, cmdVars, cfgVars >>

\* One run of download_best or download_youtube_audio.
Spec == Init /\ [][Next]_vars

\* The same run where every awaited tool call returns and the caller's await
\* is resumed: bot.py:77-84 awaits proc.communicate(), and a step of Next is
\* the return of the call the run is waiting for.
SpecLive == Init /\ [][Next]_vars /\ WF_vars(Next)

InitRouter ==
    /\ PipeInit /\ MediaInit /\ ArithIdle /\ PickIdle /\ HandlerInit
    /\ ProbeIdle /\ WorkspaceInit /\ CmdIdle /\ CfgIdle
    /\ \E ids \in AllowedIdSets : RouterStart(ids)

NextRouter ==
    \/ Tick /\ UNCHANGED << pipeVars, mediaVars, arithVars, pickVars, handlerVars, probeVars, wsVars, cmdVars, cfgVars >>
    \/ /\ ~ LoopBlocked
       /\ \E u \in Users, text \in Texts : HandleUrl(u, text)
       /\ UNCHANGED << pipeVars, mediaVars, arithVars, pickVars, handlerVars, probeVars, wsVars, cmdVars, cfgVars >>
    \/ /\ ~ LoopBlocked
       /\ \E u \in Users, data \in ChoiceData, p \in Prompts : OnChoice(u, data, p)
       /\ UNCHANGED << pipeVars, mediaVars, arithVars, pickVars, handlerVars, probeVars, wsVars, cmdVars, cfgVars >>
    \/ /\ \E i \in Running, outcome \in RunOutcomes : RunEnds(i, outcome)
       /\ UNCHANGED << pipeVars, mediaVars, arithVars, pickVars, handlerVars, probeVars, wsVars, cmdVars, cfgVars >>

\* The handlers of bot.py over a clock.
SpecRouter == InitRouter /\ [][NextRouter]_vars

NextMedia ==
    \/ /\ m_pc = "idle"
       /\ \E v \in {"handlers", "media_bot"}, allowed \in {{}, {"a"}}, req \in MediaRequests :
            MediaStart(v, allowed, req)
       /\ UNCHANGED << pipeVars, routerVars, arithVars, pickVars, handlerVars, probeVars, wsVars, cmdVars, cfgVars >>
    \/ /\ m_pc = "downloading"
       /\ \E stdout \in Stdouts, name \in MediaNames, size \in MediaSizes :
            MediaYtdlpReturns(stdout, name, size)
       /\ UNCHANGED << pipeVars, routerVars, arithVars, pickVars, handlerVars, probeVars, wsVars, cmdVars, cfgVars >>
    \/ /\ \E written \in BOOLEAN, size \in MediaSizes : MediaReencodeReturns(written, size)
       /\ UNCHANGED << pipeVars, routerVars, arithVars, pickVars, handlerVars, probeVars, wsVars, cmdVars, cfgVars >>
    \/ /\ \E written \in BOOLEAN, size \in MediaSizes : MediaConvertReturns(written, size)
       /\ UNCHANGED << pipeVars, routerVars, arithVars, pickVars, handlerVars, probeVars, wsVars, cmdVars, cfgVars >>
    \/ /\ \E ok \in BOOLEAN : MediaSendReturns(ok)
       /\ UNCHANGED << pipeVars, routerVars, arithVars, pickVars, handlerVars, probeVars, wsVars, cmdVars, cfgVars >>

\* One run of handle_media_request.
SpecMedia == Init /\ [][NextMedia]_vars

InitPick ==
    /\ PipeInit /\ RouterInit /\ MediaInit /\ ArithIdle /\ PickInit /\ HandlerInit
    /\ ProbeIdle /\ WorkspaceInit /\ CmdIdle /\ CfgIdle

NextPick ==
    CallPick /\ UNCHANGED << pipeVars, routerVars, mediaVars, arithVars, handlerVars, probeVars, wsVars, cmdVars, cfgVars >>

\* pick_direct_under_limit, called on every drawn list.
SpecPick == InitPick /\ [][NextPick]_vars

\* One handler of bot.py and its pipeline run, or one run of
\* handle_media_request.
NextHandler ==
    \/ /\ \E h \in {"handle_url", "on_choice"}, f \in {"best", "audio"}, v \in {1, 2} :
            HandlerStartsRun(h, f, v)
       /\ UNCHANGED << routerVars, mediaVars, arithVars, pickVars, probeVars, wsVars, cmdVars, cfgVars >>
    \/ /\ h_pc = "pipeline" /\ pc = "probing" /\ fn = "best"
       /\ \E rc \in ExitCodes, d \in ProbeDurations, formats \in ProbeFormatLists :
            ProbeReturnsBest(rc, d, formats)
       /\ UNCHANGED << routerVars, mediaVars, arithVars, pickVars, handlerVars, probeVars, wsVars, cmdVars, cfgVars >>
    \/ /\ h_pc = "pipeline" /\ pc = "direct_fetching"
       /\ \E rc \in ExitCodes, name \in {DIRECT_OUT, None}, size \in FileSizes :
            DirectFetchReturns(rc, name, size)
       /\ UNCHANGED << routerVars, mediaVars, arithVars, pickVars, handlerVars, probeVars, wsVars, cmdVars, cfgVars >>
    \/ /\ h_pc = "pipeline" /\ pc = "best_fetching"
       /\ \E rc \in ExitCodes, name \in BestOutNames \cup {None}, size \in FileSizes :
            BestFetchReturns(rc, name, size)
       /\ UNCHANGED << routerVars, mediaVars, arithVars, pickVars, handlerVars, probeVars, wsVars, cmdVars, cfgVars >>
    \/ /\ h_pc = "pipeline" /\ pc = "transcoding"
       /\ \E rc \in ExitCodes, size \in FileSizes : TranscodeReturns(rc, size)
       /\ UNCHANGED << routerVars, mediaVars, arithVars, pickVars, handlerVars, probeVars, wsVars, cmdVars, cfgVars >>
    \/ /\ h_pc = "pipeline" /\ pc = "audio_extracting"
       /\ \E rc \in ExitCodes, size \in FileSizes : AudioExtractReturns(rc, size)
       /\ UNCHANGED << routerVars, mediaVars, arithVars, pickVars, handlerVars, probeVars, wsVars, cmdVars, cfgVars >>
    \/ /\ h_pc = "pipeline" /\ pc = "probing" /\ fn = "audio"
       /\ \E rc \in ExitCodes, d \in ProbeDurations : ProbeReturnsAudio(rc, d)
       /\ UNCHANGED << routerVars, mediaVars, arithVars, pickVars, handlerVars, probeVars, wsVars, cmdVars, cfgVars >>
    \/ /\ h_pc = "pipeline" /\ pc = "audio_fetching"
       /\ \E rc \in ExitCodes, name \in AudioFetchNames \cup {None}, size \in FileSizes :
            AudioFetchReturns(rc, name, size)
       /\ UNCHANGED << routerVars, mediaVars, arithVars, pickVars, handlerVars, probeVars, wsVars, cmdVars, cfgVars >>
    \/ /\ h_pc = "pipeline" /\ pc = "mp3_encoding"
       /\ \E rc \in ExitCodes, size \in FileSizes : Mp3EncodeReturns(rc, size)
       /\ UNCHANGED << routerVars, mediaVars, arithVars, pickVars, handlerVars, probeVars, wsVars, cmdVars, cfgVars >>
    \/ /\ h_pc = "pipeline" /\ pc = "mp3_retrying"
       /\ \E rc \in ExitCodes, size \in FileSizes : Mp3RetryReturns(rc, size)
       /\ UNCHANGED << routerVars, mediaVars, arithVars, pickVars, handlerVars, probeVars, wsVars, cmdVars, cfgVars >>
    \/ /\ HandlerPipelineReturns
       /\ UNCHANGED << routerVars, mediaVars, arithVars, pickVars, probeVars, wsVars, cmdVars, cfgVars >>
    \/ /\ \E diag \in Diagnostics : HandlerPipelineRaises(diag)
       /\ UNCHANGED << routerVars, mediaVars, arithVars, pickVars, probeVars, wsVars, cmdVars, cfgVars >>
    \/ /\ \E ok \in BOOLEAN : HandlerDeliveryReturns(ok)
       /\ UNCHANGED << routerVars, mediaVars, arithVars, pickVars, probeVars, wsVars, cmdVars, cfgVars >>
    \/ /\ HandlerCancelled
       /\ UNCHANGED << routerVars, mediaVars, arithVars, pickVars, probeVars, wsVars, cmdVars, cfgVars >>
    \/ /\ \E wrote \in BOOLEAN, name \in BestOutNames : OrphanExits(wrote, name, MiB)
       /\ UNCHANGED << routerVars, mediaVars, arithVars, pickVars, probeVars, wsVars, cmdVars, cfgVars >>
    \/ /\ h_pc = "idle" /\ m_pc = "idle"
       /\ \E v \in {"handlers", "media_bot"}, allowed \in {{}, {"a"}}, req \in MediaRequests :
            MediaStart(v, allowed, req)
       /\ UNCHANGED << pipeVars, routerVars, arithVars, pickVars, handlerVars, probeVars, wsVars, cmdVars, cfgVars >>
    \/ /\ m_pc = "downloading"
       /\ \E stdout \in Stdouts, name \in MediaNames, size \in MediaSizes :
            MediaYtdlpReturns(stdout, name, size)
       /\ UNCHANGED << pipeVars, routerVars, arithVars, pickVars, handlerVars, probeVars, wsVars, cmdVars, cfgVars >>
    \/ /\ \E written \in BOOLEAN, size \in MediaSizes : MediaReencodeReturns(written, size)
       /\ UNCHANGED << pipeVars, routerVars, arithVars, pickVars, handlerVars, probeVars, wsVars, cmdVars, cfgVars >>
    \/ /\ \E written \in BOOLEAN, size \in MediaSizes : MediaConvertReturns(written, size)
       /\ UNCHANGED << pipeVars, routerVars, arithVars, pickVars, handlerVars, probeVars, wsVars, cmdVars, cfgVars >>
    \/ /\ \E ok \in BOOLEAN : MediaSendReturns(ok)
       /\ UNCHANGED << pipeVars, routerVars, arithVars, pickVars, handlerVars, probeVars, wsVars, cmdVars, cfgVars >>

SpecHandler == Init /\ [][NextHandler]_vars

InitProbe ==
    /\ PipeInit /\ RouterInit /\ MediaInit /\ ArithIdle /\ PickIdle /\ HandlerInit
    /\ ProbeInit /\ WorkspaceInit /\ CmdIdle /\ CfgIdle

NextProbe ==
    CallProbeInfo
      /\ UNCHANGED << pipeVars, routerVars, mediaVars, arithVars, pickVars, handlerVars, wsVars, cmdVars, cfgVars >>

\* probe_info, called on every drawn output.
SpecProbe == InitProbe /\ [][NextProbe]_vars

NextWorkspace ==
    \/ /\ \E r \in Requests, d \in DirNames : Acquire(r, d)
       /\ UNCHANGED << pipeVars, routerVars, mediaVars, arithVars, pickVars, handlerVars, probeVars, cmdVars, cfgVars >>
    \/ /\ \E r \in Requests, name \in TitleNames : Touch(r, name)
       /\ UNCHANGED << pipeVars, routerVars, mediaVars, arithVars, pickVars, handlerVars, probeVars, cmdVars, cfgVars >>
    \/ /\ \E r \in Requests : Release(r)
       /\ UNCHANGED << pipeVars, routerVars, mediaVars, arithVars, pickVars, handlerVars, probeVars, cmdVars, cfgVars >>

\* Requests entering and leaving their working directories.
SpecWorkspace == Init /\ [][NextWorkspace]_vars

InitArith ==
    /\ PipeInit /\ RouterInit /\ MediaInit /\ ArithInit /\ PickIdle /\ HandlerInit
    /\ ProbeIdle /\ WorkspaceInit /\ CmdIdle /\ CfgIdle

NextArith ==
    \/ CallComputeBitrates /\ UNCHANGED << pipeVars, routerVars, mediaVars, pickVars, handlerVars, probeVars, wsVars, cmdVars, cfgVars >>
    \/ CallComputeAudioBitrate /\ UNCHANGED << pipeVars, routerVars, mediaVars, pickVars, handlerVars, probeVars, wsVars, cmdVars, cfgVars >>
    \/ /\ \E v \in TierInputs : CallScalingFilter(v)
       /\ UNCHANGED << pipeVars, routerVars, mediaVars, pickVars, handlerVars, probeVars, wsVars, cmdVars, cfgVars >>

\* The pure functions, called on every drawn input.
SpecArith == InitArith /\ [][NextArith]_vars

InitCommand ==
    /\ PipeInit /\ RouterInit /\ MediaInit /\ ArithIdle /\ PickIdle /\ HandlerInit
    /\ ProbeIdle /\ WorkspaceInit /\ CmdInit /\ CfgIdle

NextCommand ==
    \/ CallYtDlpBase
         /\ UNCHANGED << pipeVars, routerVars, mediaVars, arithVars, pickVars, handlerVars, probeVars, wsVars, cfgVars >>
    \/ CallBuildYtDlpCmd
         /\ UNCHANGED << pipeVars, routerVars, mediaVars, arithVars, pickVars, handlerVars, probeVars, wsVars, cfgVars >>

\* The command line of one yt-dlp call, for each drawn link and caller.
SpecCommand == InitCommand /\ [][NextCommand]_vars

InitConfig ==
    /\ PipeInit /\ RouterInit /\ MediaInit /\ ArithIdle /\ PickIdle /\ HandlerInit
    /\ ProbeIdle /\ WorkspaceInit /\ CmdIdle /\ CfgInit

NextConfig ==
    \/ CallLoadConfig
         /\ UNCHANGED << pipeVars, routerVars, mediaVars, arithVars, pickVars, handlerVars, probeVars, wsVars, cmdVars >>
    \/ CallMediaBotLoadConfig
         /\ UNCHANGED << pipeVars, routerVars, mediaVars, arithVars, pickVars, handlerVars, probeVars, wsVars, cmdVars >>

\* The two copies of load_config on one key and one value of its variable.
SpecConfig == InitConfig /\ [][NextConfig]_vars

\* ------------------------------------------------------------------------
\* Properties of one pipeline run (Spec)
\* ------------------------------------------------------------------------

Returned == pc = "done" /\ result.kind = "success"

Raised == pc = "done" /\ result.kind = "failure"

CallsOf(op) == {i \in 1..Len(calls) : calls[i].op = op}

LastCallIs(op) == calls # << >> /\ Last(calls).op = op

\* C1: every path download_best or download_youtube_audio returns names a
\* file of the folder whose size is at most TARGET_BYTES; a run that ends
\* otherwise has raised, and it returns no path.
C1_ReturnedFileFits ==
    /\ result.kind = "success" =>
         /\ pc = "done"
         /\ result.path \in FileNames
         /\ Exists(folder, result.path)
         /\ folder[result.path] <= TARGET_BYTES
    /\ pc = "done" => result.kind \in {"success", "failure"}
    /\ result.kind = "failure" => pc = "done" /\ result.path = None

\* C1 witness: the halved MP3 is returned after a first encode over the limit.
C1_Witness ==
    /\ Returned
    /\ fn = "audio"
    /\ result.path = MP3_OUT2
    /\ folder[MP3_OUT] > TARGET_BYTES
    /\ folder[MP3_OUT2] = TARGET_BYTES

StageRank(s) ==
    CASE s = "PROBE" -> 1
      [] s = "TRY_DIRECT" -> 2
      [] s = "TRY_BEST" -> 3
      [] s = "TRANSCODE" -> 4
      [] s = "AUDIO_FALLBACK" -> 5
      [] OTHER -> 0

\* The stages entered so far are stages of download_best in strictly
\* increasing order: none twice, none after a later one.
StagesInOrder ==
    \A i \in 1..Len(stages) :
        /\ StageRank(stages[i]) > 0
        /\ i > 1 => StageRank(stages[i - 1]) < StageRank(stages[i])

\* C3: a run of download_best enters PROBE, TRY_DIRECT, TRY_BEST, TRANSCODE,
\* AUDIO_FALLBACK in that order, each at most once, and once the result is a
\* Success no step enters a stage, calls a tool or changes the result.
C3_StagesStrictlyOrdered ==
    /\ [](fn = "best" => StagesInOrder)
    /\ [][result.kind = "success" => UNCHANGED << result, stages, calls >>]_vars

\* C3 witness: a run that went through all five stages and returned.
C3_Witness ==
    /\ Returned
    /\ stages = << "PROBE", "TRY_DIRECT", "TRY_BEST", "TRANSCODE", "AUDIO_FALLBACK" >>

\* C6: when a direct format was chosen and its fetch exited 0 without
\* leaving an .mp4 of at most TARGET_BYTES, the run goes on to the best
\* download: it has not ended in failure with the direct fetch as its last
\* tool call.
C6_DirectMissContinues ==
    ( /\ pc = "done"
      /\ chosen # None
      /\ LastCallIs("direct")
      /\ code = 0
      /\ ~ \E n \in Mp4Names : Exists(folder, n) /\ folder[n] <= TARGET_BYTES )
    => result.kind # "failure"

C8_SingleHalvedRetry ==
    /\ Cardinality(CallsOf("mp3")) <= 2
    /\ \A i, j \in CallsOf("mp3") : i < j =>
         /\ folder[MP3_OUT] > TARGET_BYTES
         /\ calls[i].output = MP3_OUT
         /\ calls[j].output = MP3_OUT2
         /\ calls[j].input = calls[i].input
         /\ calls[i].kbps = kbps
         /\ calls[j].kbps = Max(64, kbps \div 2)
    /\ (pc = "done" /\ Cardinality(CallsOf("mp3")) = 1 /\ code = 0) =>
         /\ folder[MP3_OUT] <= TARGET_BYTES
         /\ result = Success(MP3_OUT, None)
    /\ (pc = "done" /\ Cardinality(CallsOf("mp3")) = 2) =>
         IF code # 0 \/ folder[MP3_OUT2] > TARGET_BYTES
           THEN result = Failure("audio cannot fit")
           ELSE result = Success(MP3_OUT2, None)

\* C8 witness: both encodes exited 0 and came out over the limit, the second
\* at the floor of 64 kbps.
C8_Witness ==
    /\ Raised
    /\ Cardinality(CallsOf("mp3")) = 2
    /\ code = 0
    /\ folder[MP3_OUT2] > TARGET_BYTES
    /\ kbps < 128
    /\ kbps2 = 64

\* Scenario A: a 60 s item with no direct candidate whose best download is
\* 120 MB, under the default limit of 70 MB.
ScenarioA ==
    /\ fn = "best"
    /\ TARGET_BYTES = 70 * 1024 * 1024
    /\ duration = 60 * DurDen
    /\ chosen = None
    /\ input_path # None
    /\ folder[input_path] = 120 * MiB

ScenarioAOutcome ==
    /\ "TRANSCODE" \in {stages[i] : i \in 1..Len(stages)}
    /\ v_kbps > 280
    /\ scale = "1280x720"
    /\ (pc = "done" /\ LastCallIs("transcode") /\ code = 0
          /\ folder[OUTPUT_PATH] <= TARGET_BYTES)
       => result = Success(OUTPUT_PATH, NOTE_COMPRESSED)

\* C9 as stated: in Scenario A the run reaches TRANSCODE with a video
\* bitrate of about 7548 kbps (within one percent), above the floor, picks
\* the 1280x720 tier and returns the compressed file when it fits.
C9_ScenarioA_7548 ==
    ScenarioA =>
      /\ ScenarioAOutcome
      /\ 100 * v_kbps >= 99 * 7548
      /\ 100 * v_kbps <= 101 * 7548

\* C9 amended: in Scenario A the run reaches TRANSCODE with a video bitrate
\* of 9690 kbps, the integer part of 70*1024*1024*8/60/1000 - 96 = 9690.7,
\* above the floor, picks the 1280x720 tier and returns the compressed file
\* when it fits.
C9_ScenarioA_9690 ==
    ScenarioA =>
      /\ ScenarioAOutcome
      /\ v_kbps = 9690
      /\ a_kbps = 96

\* C9 witness: Scenario A ended with the compressed file returned.
C9_Witness ==
    /\ ScenarioA
    /\ Returned
    /\ result.note = NOTE_COMPRESSED
    /\ v_kbps = 9690

\* ------------------------------------------------------------------------
\* Properties of the handlers (SpecRouter)
\* ------------------------------------------------------------------------

C5_CooldownRejection ==
    [][ /\ \A i \in 1..Len(tasks) :
             tasks[i].status = "cooldown" => tasks'[i] = tasks[i]
        /\ ( /\ Len(tasks') > Len(tasks)
             /\ Last(tasks').user \in ALLOWED_IDS
             /\ now - last_call[Last(tasks').user] < RATE_LIMIT_SECONDS )
           => /\ Last(tasks').status = "cooldown"
              /\ Last(tasks').reply = REPLY_RETRY_LATER
              /\ Last(tasks').url = None
              /\ last_call' = last_call
              /\ pending_url' = pending_url ]_vars

\* C5 witness: a button press was rejected by the cooldown of a run of the
\* caller, while the link of the prompt was stored.
C5_Witness ==
    \E i \in 1..Len(tasks) :
        /\ tasks[i].status = "cooldown"
        /\ tasks[i].handler = "on_choice"
        /\ tasks[i].reply = REPLY_RETRY_LATER
        /\ pending_url[tasks[i].user] # None
        /\ last_call[tasks[i].user] > 0

\* ------------------------------------------------------------------------
\* Properties of handle_media_request (SpecMedia)
\* ------------------------------------------------------------------------

\* C2: a file is sent only if its size is at most MAX_FILE_SIZE_MB megabytes.
C2_SentWithinLimit ==
    m_sent # NotSent => m_sent.size <= MAX_FILE_SIZE_MB * MiB

\* ------------------------------------------------------------------------
\* Properties of the pure functions (SpecArith)
\* ------------------------------------------------------------------------

\* C10: for a duration of at least one second and a positive target,
\* compute_bitrates returns a video bitrate of at least 280, returns the
\* audio bitrate it was given, and the two add up to at most
\* target_bytes*8/duration/1000 whenever that total exceeds 280 + audio_kbps.
C10_BitratesWithinBudget ==
    ( /\ ar_out.op = "compute_bitrates"
      /\ ar_in.duration >= DurDen
      /\ ar_in.target_bytes > 0 )
    => LET video_kbps == ar_out.value[1]
           audio_kbps == ar_out.value[2]
       IN  /\ video_kbps >= 280
           /\ audio_kbps = ar_in.audio_kbps
           /\ TotalAbove(ar_in.duration, ar_in.target_bytes, 280 + ar_in.audio_kbps)
                => video_kbps + audio_kbps
                     <= TotalFloor(ar_in.duration, ar_in.target_bytes)

\* C10 witness: one second and 47125 bytes give a total of 377 kbps, one
\* above 280 + 96, and the video share is 281.
C10_Witness ==
    /\ ar_out.op = "compute_bitrates"
    /\ ar_in.duration = DurDen
    /\ ar_in.target_bytes = 47125
    /\ ar_in.audio_kbps = 96
    /\ ar_out.value = << 281, 96 >>

TierRank(filter) ==
    CASE filter = "640x360" -> 1
      [] filter = "854x480" -> 2
      [] filter = "1280x720" -> 3
      [] OTHER -> 0

\* C12: scaling_filter_for_bitrate gives 640x360 at 499, 854x480 at 500 and
\* at 899, 1280x720 at 900, and of two calls the one with the larger
\* video_kbps never gets the smaller tier.
C12_TiersMonotonic ==
    /\ [](ar_out.op = "scaling_filter_for_bitrate" =>
            /\ TierRank(ar_out.value[1]) > 0
            /\ ar_out.arg = 499 => ar_out.value[1] = "640x360"
            /\ ar_out.arg = 500 => ar_out.value[1] = "854x480"
            /\ ar_out.arg = 899 => ar_out.value[1] = "854x480"
            /\ ar_out.arg = 900 => ar_out.value[1] = "1280x720")
    /\ [][ ( /\ ar_out.op = "scaling_filter_for_bitrate"
             /\ ar_out'.op = "scaling_filter_for_bitrate"
             /\ ar_out.arg <= ar_out'.arg )
           => TierRank(ar_out.value[1]) <= TierRank(ar_out'.value[1]) ]_vars

\* C12 witness: the call at the upper boundary.
C12_Witness ==
    /\ ar_out.op = "scaling_filter_for_bitrate"
    /\ ar_out.arg = 900
    /\ ar_out.value = << "1280x720" >>


\* ------------------------------------------------------------------------
\* pick_direct_under_limit (SpecPick)
\* ------------------------------------------------------------------------

PickReturnedFormat == pk_out.called /\ pk_out.value \notin {NoFormat, RaisedFormat}

\* The size the claims speak of: filesize when it is a positive number,
\* else filesize_approx; a value that is not positive is no known size.
KnownSize(f) == IF f.filesize > 0 THEN f.filesize ELSE f.filesize_approx

Survives(f) ==
    /\ f.acodec \notin {"", "none"}
    /\ f.vcodec \notin {"", "none"}
    /\ f.ext = "mp4"
    /\ KnownSize(f) > 0
    /\ KnownSize(f) <= TARGET_BYTES

Survivors == { pk_in[i] : i \in { j \in 1..Len(pk_in) : Survives(pk_in[j]) } }

\* C13: whatever descriptor pick_direct_under_limit returns is one of the
\* list, has an audio and a video track, is an mp4, and has a known size of
\* at most TARGET_BYTES.
C13_PickedFormatFits ==
    PickReturnedFormat =>
      /\ \E i \in 1..Len(pk_in) : pk_in[i] = pk_out.value
      /\ pk_out.value.acodec \notin {"", "none"}
      /\ pk_out.value.vcodec \notin {"", "none"}
      /\ pk_out.value.ext = "mp4"
      /\ KnownSize(pk_out.value) > 0
      /\ KnownSize(pk_out.value) <= TARGET_BYTES

\* C13 witness: a list with an oversize, an unknown-size, a video-only and a
\* fitting descriptor among its entries returns the fitting one.
C13_Witness ==
    /\ pk_out.called
    /\ pk_in = << Fmt("59", "mp4a", "avc1", "mp4", TARGET_BYTES + 1, Absent, 480),
                  Fmt("u", "mp4a", "avc1", "mp4", Null, Absent, 240),
                  Fmt("18", "mp4a", "avc1", "mp4", 10 * MiB, Absent, 360) >>
    /\ pk_out.value.format_id = "18"

\* A height that is absent or null orders as the default of the sort key.
HeightOf(f) == IF f.height \in {Absent, Null} THEN HEIGHT_DEFAULT ELSE f.height

\* C14: pick_direct_under_limit never raises, returns None exactly when no
\* descriptor survives the filter, and otherwise returns a survivor that no
\* other survivor precedes under ascending (size, height).
C14_PickMinimalNeverRaises ==
    pk_out.called =>
      /\ pk_out.value # RaisedFormat
      /\ (pk_out.value = NoFormat) <=> (Survivors = {})
      /\ PickReturnedFormat =>
           /\ pk_out.value \in Survivors
           /\ \A g \in Survivors :
                \/ KnownSize(pk_out.value) < KnownSize(g)
                \/ /\ KnownSize(pk_out.value) = KnownSize(g)
                   /\ HeightOf(pk_out.value) <= HeightOf(g)

\* ------------------------------------------------------------------------
\* Effective duration of the bitrate computations (Spec)
\* ------------------------------------------------------------------------

\* floor(TARGET_BYTES * 8 / 1000 / 1 s): the budget of a one-second file.
OneSecondBudgetKbps == (TARGET_BYTES * 8) \div 1000

\* floor(TARGET_BYTES * 8 / 1000 / 30 s)
ThirtySecondBudgetKbps == (TARGET_BYTES * 8) \div 30000

TranscodeStarts == pc # "transcoding" /\ pc' = "transcoding"

Mp3EncodeStarts == pc # "mp3_encoding" /\ pc' = "mp3_encoding"

\* C15: when download_best computes its bitrates a probed duration that is
\* zero, negative or missing has become 30 s and the rates are those of 30 s;
\* a positive duration below one second gives the rates of exactly one
\* second; no duration gives rates above the one-second budget.  When
\* download_youtube_audio computes its bitrate a duration that is zero,
\* negative or missing has become 60 s and the bitrate is at most the
\* ceiling.
C15_EffectiveDurationAtLeastOne ==
    /\ [][ TranscodeStarts =>
             /\ duration <= 0 =>
                  /\ duration' = 30 * DurDen
                  /\ v_kbps' = ThirtySecondBudgetKbps - a_kbps'
             /\ duration > 0 => duration' = duration
             /\ (duration > 0 /\ duration <= DurDen) =>
                  v_kbps' = OneSecondBudgetKbps - a_kbps'
             /\ v_kbps' + a_kbps' <= OneSecondBudgetKbps ]_vars
    /\ [][ Mp3EncodeStarts =>
             /\ duration <= 0 => duration' = 60 * DurDen
             /\ duration > 0 => duration' = duration
             /\ kbps' <= 320 ]_vars

\* C15 witness: a transcode started after a probe that reported a duration
\* below one second runs at the video bitrate of a one-second file.
C15_Witness ==
    /\ pc = "transcoding"
    /\ duration = 1
    /\ v_kbps = 587106
    /\ a_kbps = 96

\* ------------------------------------------------------------------------
\* The YouTube choice (SpecRouter)
\* ------------------------------------------------------------------------

YouTubeLinks == {"https://youtube.com/1", "https://youtube.com/2"}

\* Task i has started a pipeline run (it may have ended since).
StartedRun(i) == tasks[i].fn # None

\* C16: a handle_url call on a YouTube link starts no pipeline run; when it
\* answers with the choice it has stored the link for its user.  A run on a
\* YouTube link is started by on_choice only, on a button press, after a
\* handle_url call of the same user was answered with the choice for that
\* link.
C16_YouTubeRunsFollowChoice ==
    /\ [](\A i \in 1..Len(tasks) :
            /\ (tasks[i].handler = "handle_url" /\ tasks[i].text \in YouTubeLinks) =>
                 /\ ~ StartedRun(i)
                 /\ tasks[i].url = None
                 /\ tasks[i].status \in {"prompted", "cooldown", "unauthorized"}
                 /\ tasks[i].status = "prompted" => tasks[i].reply = REPLY_CHOOSE
            /\ (StartedRun(i) /\ tasks[i].url \in YouTubeLinks) =>
                 /\ tasks[i].handler = "on_choice"
                 /\ tasks[i].data \in {"yt:video", "yt:audio"}
                 /\ \E j \in 1..(i - 1) :
                      /\ tasks[j].handler = "handle_url"
                      /\ tasks[j].status = "prompted"
                      /\ tasks[j].user = tasks[i].user
                      /\ tasks[j].text = tasks[i].url)
    /\ [][ (/\ Len(tasks') = Len(tasks) + 1
            /\ tasks'[Len(tasks')].status = "prompted")
           => pending_url'[tasks'[Len(tasks')].user] = tasks'[Len(tasks')].text ]_vars

\* C16 witness: a YouTube link was answered with the choice, and the audio
\* run started by the button press has delivered its file.
C16_Witness ==
    /\ Len(tasks) = 2
    /\ tasks[1].handler = "handle_url"
    /\ tasks[1].text = "https://youtube.com/1"
    /\ tasks[1].status = "prompted"
    /\ tasks[2].handler = "on_choice"
    /\ tasks[2].url = "https://youtube.com/1"
    /\ tasks[2].fn = "audio"
    /\ tasks[2].status = "delivered"

\* ------------------------------------------------------------------------
\* The handler around a run: workspace, processes, replies (SpecHandler)
\* ------------------------------------------------------------------------

EventsOf(ev) == {i \in 1..Len(h_log) : h_log[i].ev = ev}

\* C17: once a handler that entered a temporary directory has ended, the
\* directory has been released, no file of the request is left at its path,
\* and a file that was delivered was delivered before the release; the
\* directory is held only while the handler is running.
C17_WorkspaceReleasedNothingSurvives ==
    /\ h_tmpdir = "held" => h_pc \in {"pipeline", "delivering"}
    /\ h_pc = "ended" =>
         /\ h_tmpdir = "released"
         /\ Cardinality(EventsOf("release")) = 1
         /\ \A n \in FileNames : folder[n] = Absent
         /\ \A i \in EventsOf("file"), j \in EventsOf("release") : i < j

\* C18: after a handler has ended, by cancellation or otherwise, no process
\* it started is still running.
C18_NoProcessOutlivesRequest ==
    h_pc = "ended" => h_orphan # "running"

\* C19: a handler of bot.py whose pipeline run ended in failure has sent
\* exactly one error message and no file; a handle_media_request whose
\* download fails or leaves no valid file ends with an error text in its
\* status message and nothing sent.
C19_OneErrorMessagePerFailure ==
    /\ []((h_pc = "ended" /\ result.kind = "failure") =>
            /\ Cardinality(EventsOf("error")) = 1
            /\ EventsOf("file") = {})
    /\ []((h_pc = "pipeline" /\ pc = "done" /\ result.kind = "failure") =>
            /\ EventsOf("error") = {}
            /\ EventsOf("file") = {})
    /\ [][ (m_pc = "downloading" /\ m_pc' = "done") =>
             /\ m_status' \in {"download failed", "invalid output"}
             /\ m_sent' = NotSent ]_vars

\* C19 witness: the run could not fit the file, and the handler has answered
\* with one error message and no file.
C19_Witness ==
    /\ h_pc = "ended"
    /\ result.kind = "failure"
    /\ result.error = "cannot fit"
    /\ Cardinality(EventsOf("error")) = 1
    /\ EventsOf("file") = {}

\* C20: an error message sent to the caller carries the error's kind and
\* nothing of what the failing tool printed, so that runs that differ in the
\* tool's output alone send the same text.
C20_ReplyIndependentOfDiagnostic ==
    \A i \in EventsOf("error") : h_log[i].detail = None

\* ------------------------------------------------------------------------
\* Failure propagation inside a run (Spec)
\* ------------------------------------------------------------------------

\* The operations of which the run has made more than one call.
RepeatedOps ==
    { calls[i].op : i \in { k \in 1..Len(calls) :
                              \E j \in 1..Len(calls) : j # k /\ calls[j].op = calls[k].op } }

\* C21: once a tool has exited non-zero the run is over and has failed, and
\* the step on which it returned started no tool; no operation is called
\* twice in a run except the MP3 encode, and its second call is started on
\* the return of a first encode that exited 0.
C21_NoRetryAfterFailure ==
    /\ [](code # 0 => (pc = "done" /\ result.kind = "failure"))
    /\ [][code' # 0 => calls' = calls]_vars
    /\ [](RepeatedOps \subseteq {"mp3"})
    /\ [][ (Cardinality(CallsOf("mp3")) = 1 /\ Cardinality(CallsOf("mp3"))' = 2)
           => (code' = 0 /\ folder'[MP3_OUT] > TARGET_BYTES) ]_vars

\* C21 witness: the retry encode exited non-zero leaving no output; the run
\* has failed after its fourth call.
C21_Witness ==
    /\ Raised
    /\ code # 0
    /\ Len(calls) = 4
    /\ Cardinality(CallsOf("mp3")) = 2
    /\ ~ Exists(folder, MP3_OUT2)

\* ------------------------------------------------------------------------
\* probe_info (SpecProbe)
\* ------------------------------------------------------------------------

\* C22: probe_info raises, with the tool's stripped stderr (its stdout when
\* that is empty) in the error, when the tool exited non-zero; otherwise it
\* returns a record that is no playlist, the first entry when the output is
\* a playlist.
C22_ProbeReturnsOneItem ==
    pr_out.called =>
      /\ pr_in.code # 0 =>
           /\ pr_out.raised
           /\ pr_out.detail = IF Strip(pr_in.err) # "" THEN Strip(pr_in.err)
                              ELSE Strip(pr_in.out)
      /\ pr_in.code = 0 =>
           /\ ~ pr_out.raised
           /\ pr_out.value.type # "playlist"
           /\ pr_in.doc.type # "playlist" => pr_out.value = pr_in.doc

\* ------------------------------------------------------------------------
\* Working directories (SpecWorkspace)
\* ------------------------------------------------------------------------

\* C23: two requests in flight never hold the same directory, and a path a
\* request writes, scans or sends lies in its own directory, which no other
\* request in flight holds.
C23_DistinctWorkingDirectories ==
    /\ [](\A r1, r2 \in InFlight : r1 # r2 => ws_dir[r1] # ws_dir[r2])
    /\ [][ ws_last' # ws_last =>
             /\ ws_last'.req \in InFlight
             /\ ws_last'.dir = ws_dir[ws_last'.req]
             /\ \A r \in InFlight : r # ws_last'.req => ws_dir[r] # ws_last'.dir ]_vars

\* C23 witness: three requests in flight, the last one to touch a file
\* working under the name all of them derive from the title.
C23_Witness ==
    /\ InFlight = Requests
    /\ ws_last.req = 2
    /\ ws_last.name = "t.mp4"
    /\ ws_last.dir = ws_dir[2]

\* ------------------------------------------------------------------------
\* The event loop while a tool runs (SpecRouter)
\* ------------------------------------------------------------------------

\* A handler of another request takes its first step.
OtherHandlerSteps ==
    /\ ~ LoopBlocked
    /\ \E u \in Users, text \in Texts : HandleUrl(u, text)
    /\ UNCHANGED << pipeVars, mediaVars, arithVars, pickVars, handlerVars, probeVars, wsVars, cmdVars, cfgVars >>

Mp3Names == {"t.mp3", "t.fit.mp3"}

\* C25: download_youtube_audio returns a file named .mp3 of at most
\* TARGET_BYTES; it returns the file its scan found, with no encode, exactly
\* when the scan found an .mp3 of at most TARGET_BYTES, and every other
\* path it returns is the output the last encode wrote on exit 0.
C25_AudioReturnsMp3 ==
    (fn = "audio" /\ Returned) =>
      /\ result.path \in Mp3Names
      /\ Exists(folder, result.path)
      /\ folder[result.path] <= TARGET_BYTES
      /\ (CallsOf("mp3") = {}) <=>
           (input_path \in Mp3Names /\ folder[input_path] <= TARGET_BYTES)
      /\ CallsOf("mp3") = {} =>
           /\ result.path = input_path
           /\ madeBy[result.path] = "bestaudio"
      /\ CallsOf("mp3") # {} =>
           /\ result.path = Last(calls).output
           /\ result.path # input_path
           /\ madeBy[result.path] \in {"mp3", "mp3_retry"}
           /\ code = 0

\* C25 witness: the download is an .m4a within the limit; it is encoded all
\* the same and the encoder's .mp3 is returned.
C25_Witness ==
    /\ fn = "audio" /\ Returned
    /\ input_path = "t.m4a"
    /\ folder[input_path] <= TARGET_BYTES
    /\ result.path = "t.mp3"
    /\ madeBy["t.mp3"] = "mp3"

\* ------------------------------------------------------------------------
\* C26.  Access is restricted to ALLOWED_IDS: a user whose id is not listed
\* is answered "unauthorized" by every handler, no run is started for them
\* (no pipeline function, no url), their entries of _last_call and
\* pending_url stay as they were at start-up and the step that answers them
\* writes neither table; with an empty ALLOWED_IDS every handler run of
\* every user is rejected.
\* ------------------------------------------------------------------------
Outsiders == Users \ ALLOWED_IDS

C26_AccessRestrictedToAllowedIds ==
    /\ [](\A i \in 1..Len(tasks) :
            tasks[i].user \in Outsiders =>
              /\ tasks[i].status = "unauthorized"
              /\ tasks[i].fn = None
              /\ tasks[i].url = None)
    /\ [](\A u \in Outsiders : last_call[u] = 0 /\ pending_url[u] = None)
    /\ [][ (Len(tasks') > Len(tasks) /\ Last(tasks').user \in Outsiders)
             => (last_call' = last_call /\ pending_url' = pending_url) ]_vars
    /\ [](ALLOWED_IDS = {} =>
            \A i \in 1..Len(tasks) : tasks[i].status = "unauthorized")

\* The list is {"a"}: "a" has a run in progress and the unlisted user "z"
\* has then been turned away by handle_url, for a link that would have
\* started a run.
C26_Witness ==
    /\ ALLOWED_IDS = {"a"}
    /\ \E i, k \in 1..Len(tasks) :
         /\ tasks[i].user = "z" /\ tasks[i].handler = "handle_url"
         /\ tasks[i].text = "https://tiktok.com/1"
         /\ tasks[i].status = "unauthorized"
         /\ tasks[k].user = "a" /\ tasks[k].status = "running"
         /\ k < i

\* The list is empty and both users have been turned away.
EmptyListRejectsAll ==
    /\ ALLOWED_IDS = {}
    /\ Len(tasks) = 2
    /\ tasks[1].user = "a" /\ tasks[1].status = "unauthorized"
    /\ tasks[2].user = "z" /\ tasks[2].status = "unauthorized"


\* ------------------------------------------------------------------------
\* C27.  In handle_media_request, when the text holds "mp3" together with a
\* link, the file delivered is audio-only: it is sent as an audio attachment
\* and its name has an audio extension, for every URL and every outcome of
\* the conversion step.
\* ------------------------------------------------------------------------
Delivered == m_sent # NotSent

C27_Mp3RequestDeliversAudio ==
    (Delivered /\ m_req.has_url /\ m_req.as_audio) =>
        (m_sent.as = "audio" /\ AudioSuffix(m_sent.name))

\* The two ways the request is answered with a video: a TikTok link, which
\* is never converted, and a download whose conversion failed.
C27_TikTokSentAsVideo ==
    /\ Delivered /\ m_req.as_audio /\ m_req.is_tiktok
    /\ m_sent.as = "video" /\ m_sent.name \in {"m.mp4", "m_fixed.mp4"}

C27_FailedConversionSentAsVideo ==
    /\ Delivered /\ m_req.as_audio /\ ~ m_req.is_tiktok
    /\ m_sent.as = "video" /\ m_sent.name = "m.webm"
    /\ ~ is_valid_file(m_files, "m.mp3")

\* Where the conversion ran and wrote a valid MP3, or was not needed.
C27_HoldsOffTheTwoPaths ==
    (Delivered /\ m_req.has_url /\ m_req.as_audio /\ ~ m_req.is_tiktok
       /\ (is_valid_file(m_files, "m.mp3") \/ ~ NeedsMp3(m_processed))) =>
        (m_sent.as = "audio" /\ AudioSuffix(m_sent.name))

\* ------------------------------------------------------------------------
\* C28.  Every run of download_best and download_youtube_audio ends in
\* Success or Failure after a bounded number of tool invocations, when each
\* invocation returns: at most five for download_best (probe, direct fetch,
\* best fetch, transcode, audio extract, in this order and each at most
\* once), at most four for download_youtube_audio (probe, fetch, encode,
\* retry, in this order).
\* ------------------------------------------------------------------------
BestOrder == << "probe", "direct", "best", "transcode", "extract_audio" >>

AudioOrder == << "probe", "bestaudio", "mp3", "mp3" >>

\* The calls made are, in order, a selection of the steps of `order`.
RECURSIVE FollowsOrder(_, _)
FollowsOrder(ops, order) ==
    IF ops = << >> THEN TRUE
    ELSE IF order = << >> THEN FALSE
    ELSE IF Head(ops) = Head(order) THEN FollowsOrder(Tail(ops), Tail(order))
    ELSE FollowsOrder(ops, Tail(order))

OpsCalled == [i \in 1..Len(calls) |-> calls[i].op]

C28_RunEndsAfterBoundedCalls ==
    /\ [](fn = "best" => (Len(calls) <= 5 /\ FollowsOrder(OpsCalled, BestOrder)))
    /\ [](fn = "audio" => (Len(calls) <= 4 /\ FollowsOrder(OpsCalled, AudioOrder)))
    /\ [](pc = "done" => result.kind \in {"success", "failure"})
    /\ [][pc = "done" => UNCHANGED calls]_vars
    /\ [](pc # "idle" => <>(pc = "done"))

\* A run of download_best that made all five calls and has ended, and (in
\* C28_WitnessAudio) a run of download_youtube_audio that made all four.
C28_Witness ==
    /\ fn = "best" /\ pc = "done" /\ Len(calls) = 5
    /\ OpsCalled = BestOrder

C28_WitnessAudio ==
    /\ fn = "audio" /\ pc = "done" /\ Len(calls) = 4
    /\ OpsCalled = AudioOrder

\* ------------------------------------------------------------------------
\* C29.  The note download_best returns is None exactly when the returned
\* file is an untouched download (written by the direct or the best fetch),
\* the compressed-to-fit note exactly when it is the transcoder's output,
\* and the audio-only note exactly when it is the output of the audio
\* fallback.
\* ------------------------------------------------------------------------
BestReturned == fn = "best" /\ result.kind = "success"

C29_NoteMatchesReturnedFile ==
    BestReturned =>
      /\ result.note \in {None, NOTE_COMPRESSED, NOTE_AUDIO_ONLY}
      /\ result.note = None <=>
           (madeBy[result.path] \in {"direct", "best"}
              /\ result.path \notin {OUTPUT_PATH, AUDIO_OUT})
      /\ result.note = NOTE_COMPRESSED <=>
           (result.path = OUTPUT_PATH /\ madeBy[OUTPUT_PATH] = "transcode")
      /\ result.note = NOTE_AUDIO_ONLY <=>
           (result.path = AUDIO_OUT /\ madeBy[AUDIO_OUT] = "extract_audio")

\* download_best has returned the audio fallback with its note, after a
\* transcode whose output was over the limit.
C29_Witness ==
    /\ BestReturned
    /\ result.note = NOTE_AUDIO_ONLY /\ result.path = AUDIO_OUT
    /\ Exists(folder, OUTPUT_PATH) /\ folder[OUTPUT_PATH] > TARGET_BYTES

C29_WitnessCompressed ==
    BestReturned /\ result.note = NOTE_COMPRESSED /\ result.path = OUTPUT_PATH

C29_WitnessUntouched ==
    /\ BestReturned /\ result.note = None
    /\ madeBy[result.path] = "best" /\ result.path = "t.webm"

\* ------------------------------------------------------------------------
\* C30.  When a run started by handle_url or on_choice ends, by success, by
\* failure or by an exception, _last_call[user] holds the time of the
\* completion, so the cooldown window is counted from there; a handler that
\* returns before starting a run (unauthorised, invalid URL, YouTube prompt,
\* missing pending_url) leaves _last_call unchanged.
\* ------------------------------------------------------------------------
EarlyReturns == {"unauthorized", "invalid", "prompted", "no_url"}

EndsRun(i) ==
    /\ i \in Running
    /\ tasks'[i].status \in RunOutcomes

C30_LastCallHoldsCompletionTime ==
    /\ [][ \A i \in 1..Len(tasks) :
             EndsRun(i) =>
               /\ last_call'[tasks[i].user] = now'
               /\ \A u \in Users \ {tasks[i].user} : last_call'[u] = last_call[u] ]_vars
    /\ [][ \A i \in 1..Len(tasks) : (i \in Running /\ i \notin Running') => EndsRun(i) ]_vars
    /\ [][ (Len(tasks') > Len(tasks) /\ Last(tasks').status \in EarlyReturns)
             => last_call' = last_call ]_vars
    /\ [](\A u \in Users : last_call[u] <= now)

\* A run of "a" was started at one time and has ended at a later one, and
\* the table holds the later time.
C30_Witness ==
    \E i \in 1..Len(tasks) :
      /\ tasks[i].status \in RunOutcomes
      /\ tasks[i].status = "pipeline_failed"
      /\ now > StartTime
      /\ last_call[tasks[i].user] = now
      /\ Len(tasks) = 1

\* ------------------------------------------------------------------------
\* C31.  An extraction-tool invocation counts as successful exactly when its
\* exit code is 0, whatever it printed: in handle_media_request the download
\* is reported as failed exactly when yt-dlp exited non-zero
\* (run_blocking_cmd returned None), so an exit-0 run with empty stdout is
\* not reported as a download failure.
\* ------------------------------------------------------------------------
YtdlpReturned == m_result # NOT_RUN

YtdlpExitedZero == m_result # NOT_RUN /\ m_result # None

C31_SuccessIsExitCodeZero ==
    YtdlpReturned => (m_status = "download failed" <=> ~ YtdlpExitedZero)

\* handlers.py has reported a download failure for an exit-0 run that
\* printed nothing.
C31_EmptyStdoutReportedAsFailure ==
    /\ m_variant = "handlers"
    /\ m_result = ""
    /\ m_pc = "done" /\ m_status = "download failed"

\* The statement restricted to the copy in media_bot.py, which tests
\* `result is None`.
C31_HoldsInMediaBot ==
    (m_variant = "media_bot" /\ YtdlpReturned) =>
        (m_status = "download failed" <=> ~ YtdlpExitedZero)

\* ------------------------------------------------------------------------
\* C32.  Every yt-dlp invocation built for a tiktok.com link (probe, direct
\* fetch, best fetch or audio fetch, and the fetch of handle_media_request)
\* carries both the request for the highest-definition variant and the
\* referer header of the platform, and no invocation for a link to another
\* site carries either.
\* ------------------------------------------------------------------------
Follows(args, flag, value) ==
    \E i \in 1..(Len(args) - 1) : args[i] = flag /\ args[i + 1] = value

HasHdTag(args) == Follows(args, "--extractor-args", "tiktok:hd=1")

HasReferer(args) ==
    \/ Follows(args, "--referer", "https://www.tiktok.com/")
    \/ Follows(args, "--add-header", "Referer:https://www.tiktok.com/")

C32_TikTokCommandsTagged ==
    cm_out.built =>
      IF OnTikTok(cm_in.link)
        THEN HasHdTag(cm_out.args) /\ HasReferer(cm_out.args)
        ELSE ~ HasHdTag(cm_out.args) /\ ~ HasReferer(cm_out.args)

\* build_yt_dlp_cmd has built the command for a TikTok link without the
\* request for the highest definition.
C32_DownloaderOmitsHdTag ==
    /\ cm_out.built /\ cm_in.builder = "downloader"
    /\ OnTikTok(cm_in.link) /\ lower(cm_in.link.host) = cm_in.link.host
    /\ HasReferer(cm_out.args) /\ ~ HasHdTag(cm_out.args)

\* build_yt_dlp_cmd has built the command for a TikTok link whose host is
\* spelt with capitals without the referer.
C32_DownloaderMissesCapitals ==
    /\ cm_out.built /\ cm_in.builder = "downloader"
    /\ OnTikTok(cm_in.link)
    /\ ~ HasReferer(cm_out.args)

\* A link to another site that mentions tiktok.com is given both.
C32_OtherSiteTagged ==
    /\ cm_out.built /\ cm_in.builder = "bot"
    /\ ~ OnTikTok(cm_in.link)
    /\ HasHdTag(cm_out.args) /\ HasReferer(cm_out.args)

\* In bot.py, for the links that do not mention tiktok.com outside the
\* host, the statement holds for all four calls.
C32_HoldsInBotForPlainLinks ==
    (cm_out.built /\ cm_in.builder = "bot" /\ ~ Contains(TIKTOK_COM, cm_in.link.rest)) =>
      IF OnTikTok(cm_in.link)
        THEN HasHdTag(cm_out.args) /\ HasReferer(cm_out.args)
        ELSE ~ HasHdTag(cm_out.args) /\ ~ HasReferer(cm_out.args)

\* ------------------------------------------------------------------------
\* C33.  pick_direct_under_limit is a pure function of its inputs: a second
\* call on the same list (TARGET_BYTES is fixed at import) returns the same
\* descriptor, or raises again where the first raised, and a call changes
\* neither the list nor any other state.
\* ------------------------------------------------------------------------
othersThanPick ==
    << pipeVars, routerVars, mediaVars, arithVars, handlerVars, probeVars,
       wsVars, cmdVars, cfgVars >>

BestFetchSucceeded ==
    /\ fn = "best"
    /\ CallsOf("best") # {}
    /\ pc \in {"transcoding", "audio_extracting", "done"}
    /\ input_path # None

C34_BestStageUsesItsOwnDownload ==
    BestFetchSucceeded => madeBy[input_path] = "best"

\* The direct fetch left an oversize t.mp4, the best download wrote t.webm,
\* and the scan took t.mp4: the transcoder is started on the leftover.
C34_LeftoverTranscoded ==
    /\ BestFetchSucceeded
    /\ CallsOf("direct") # {}
    /\ madeBy["t.mp4"] = "direct" /\ madeBy["t.webm"] = "best"
    /\ input_path = "t.mp4"
    /\ \E i \in CallsOf("transcode") : calls[i].input = "t.mp4"

\* The best download found t.mp4 in place and kept it: the leftover is the
\* only video file.
C34_LeftoverKept ==
    /\ BestFetchSucceeded
    /\ madeBy["t.mp4"] = "direct" /\ input_path = "t.mp4"
    /\ \A n \in VideoNames \ {"t.mp4"} : ~ Exists(folder, n)

\* Without a direct fetch before it the best stage uses its own download.
C34_HoldsWithoutDirectFetch ==
    (BestFetchSucceeded /\ CallsOf("direct") = {}) => madeBy[input_path] = "best"

\* ------------------------------------------------------------------------
\* C35.  In every transcoder invocation of download_best and
\* download_youtube_audio the output path differs from the input path, for
\* every extension the downloaded file can have, a downloaded .mp3 over
\* TARGET_BYTES included.
\* ------------------------------------------------------------------------
FfmpegCalls == {i \in 1..Len(calls) : calls[i].tool = "ffmpeg"}

C35_TranscoderOutputDiffersFromInput ==
    \A i \in FfmpegCalls : calls[i].input # calls[i].output

\* The download is t.mp3 and over the limit: the encoder is started with
\* t.mp3 as input and as output, exits non-zero and the run fails.
C35_Mp3EncodedOntoItself ==
    /\ fn = "audio" /\ pc = "done"
    /\ input_path = MP3_OUT /\ folder[MP3_OUT] > TARGET_BYTES
    /\ madeBy[MP3_OUT] = "bestaudio"
    /\ \E i \in FfmpegCalls : calls[i].input = MP3_OUT /\ calls[i].output = MP3_OUT
    /\ result = Failure("ffmpeg mp3 encode failed")

\* The statement holds for download_best, and for download_youtube_audio
\* whenever the download is not an .mp3.
C35_HoldsOffOversizeMp3 ==
    (fn = "best" \/ input_path # MP3_OUT) =>
        \A i \in FfmpegCalls : calls[i].input # calls[i].output

\* ------------------------------------------------------------------------
\* C36.  In download_youtube_audio the retry encode uses a bitrate strictly
\* lower than the first encode, for every bitrate compute_audio_bitrate can
\* return (64 to 320).
\* ------------------------------------------------------------------------
RetryStarted ==
    /\ fn = "audio"
    /\ Cardinality(CallsOf("mp3")) = 2

FirstEncodeKbps == calls[CHOOSE i \in CallsOf("mp3") : calls[i].output = MP3_OUT].kbps

RetryEncodeKbps == calls[CHOOSE i \in CallsOf("mp3") : calls[i].output = MP3_OUT2].kbps

C36_WitnessHalved ==
    RetryStarted /\ FirstEncodeKbps = 320 /\ RetryEncodeKbps = 160

\* ------------------------------------------------------------------------
\* C37.  A choice callback downloads the URL for which its prompt was shown:
\* whatever YouTube links the user sent and whichever prompt they press,
\* the run on_choice starts is on the link of the message that produced
\* that prompt.
\* ------------------------------------------------------------------------
ChoiceRuns ==
    {i \in 1..Len(tasks) :
       tasks[i].handler = "on_choice" /\ tasks[i].fn # None}

C37_ChoiceRunsThePromptedUrl ==
    \A i \in ChoiceRuns : tasks[i].url = tasks[tasks[i].prompt].text

\* Two YouTube links were sent, each answered with a prompt; the button of
\* the first prompt was pressed and the run is on the second link.
C37_OlderPromptRunsNewerUrl ==
    /\ Len(tasks) = 3
    /\ tasks[1].status = "prompted" /\ tasks[1].text = "https://youtube.com/1"
    /\ tasks[2].status = "prompted" /\ tasks[2].text = "https://youtube.com/2"
    /\ tasks[3].handler = "on_choice" /\ tasks[3].prompt = 1
    /\ tasks[3].status = "running" /\ tasks[3].url = "https://youtube.com/2"

\* With a single prompt outstanding the run is on its link.
C37_HoldsForASinglePrompt ==
    \A i \in ChoiceRuns :
       Cardinality({p \in 1..(i - 1) : tasks[p].reply = REPLY_CHOOSE}) = 1
         => tasks[i].url = tasks[tasks[i].prompt].text

\* ------------------------------------------------------------------------
\* C38.  A pending_url stored by handle_url stays available until an
\* on_choice run for it has ended: under any interleaving of a user's
\* messages and callbacks, the completion of an earlier run never removes a
\* link that was stored after that run started.
\* ------------------------------------------------------------------------
\* A prompt of the caller of run i was shown after run i started: the link
\* in the caller's slot, if any, was stored then.
StoredAfterStart(i) ==
    /\ pending_url[tasks[i].user] # None
    /\ \E j \in (i + 1)..Len(tasks) :
         /\ tasks[j].user = tasks[i].user
         /\ tasks[j].reply = REPLY_CHOOSE

C38_LaterUrlRemoved ==
    /\ Len(tasks) = 3
    /\ tasks[1].reply = REPLY_CHOOSE
    /\ tasks[2].handler = "on_choice" /\ tasks[2].status \in RunOutcomes
    /\ tasks[2].url = tasks[1].text
    /\ tasks[3].status = "prompted" /\ tasks[3].text # tasks[1].text
    /\ pending_url["a"] = None

\* The completion of a run of handle_url (a link that needs no prompt)
\* leaves the slot alone.
C38_HoldsForHandleUrlRuns ==
    [][ \A i \in 1..Len(tasks) :
          (EndsRun(i) /\ tasks[i].handler = "handle_url")
            => pending_url' = pending_url ]_vars

\* ------------------------------------------------------------------------
\* C39.  In handle_media_request every delivered file is a regular file
\* larger than MIN_VALID_FILE_SIZE_BYTES: a re-encode or an MP3 conversion
\* whose output is missing or at most that size is discarded and the
\* previous valid file is kept, and when no downloaded file is valid
\* nothing is delivered.
\* ------------------------------------------------------------------------
LargeEnough(dir, name) ==
    /\ name \in MediaNames
    /\ dir[name] # Absent
    /\ dir[name] > MIN_VALID_FILE_SIZE_BYTES

C39_DeliveredFileIsValid ==
    /\ [](Delivered =>
            /\ LargeEnough(m_files, m_sent.name)
            /\ m_sent.size = m_files[m_sent.name])
    /\ [](m_pc \in {"reencoding", "converting", "sending"} =>
            LargeEnough(m_files, m_processed))
    /\ [][ (m_pc = "reencoding" /\ ~ LargeEnough(m_files', "m_fixed.mp4"))
             => m_processed' = m_processed ]_vars
    /\ [][ (m_pc = "converting" /\ ~ LargeEnough(m_files', "m.mp3"))
             => m_processed' = m_processed ]_vars
    /\ []((YtdlpReturned /\ ~ \E n \in MediaNames : LargeEnough(m_files, n))
            => (~ Delivered /\ m_pc = "done"))

\* A TikTok download of a valid size whose re-encode came out at exactly
\* MIN_VALID_FILE_SIZE_BYTES: the download itself was delivered.
C39_Witness ==
    /\ Delivered
    /\ m_req.is_tiktok
    /\ m_files["m_fixed.mp4"] = MIN_VALID_FILE_SIZE_BYTES
    /\ m_sent.name = "m.mp4"
    /\ m_sent.size = MIN_VALID_FILE_SIZE_BYTES + 1

\* The download was at most MIN_VALID_FILE_SIZE_BYTES: nothing delivered.
C39_WitnessInvalidDownload ==
    /\ m_pc = "done" /\ m_status = "invalid output"
    /\ m_files["m.webm"] = MIN_VALID_FILE_SIZE_BYTES
    /\ ~ Delivered

\* ------------------------------------------------------------------------
\* C40.  load_config of config.py never raises on an environment override:
\* for a boolean key (FORCE_REENCODE_TT) an environment value yields a
\* boolean that is True exactly when the lower-cased value is 'true' or
\* '1', and on those values the result agrees with media_bot.load_config.
\* ------------------------------------------------------------------------
EnvOverride == cf_in.env # NoEnv

TrueWords == {<< "t", "r", "u", "e" >>, << "1" >>}

C40_LoadConfigBooleanOverride ==
    (cf_out.config_py # NoValue /\ EnvOverride) =>
      /\ cf_out.config_py # ValueError
      /\ cf_in.key = "FORCE_REENCODE_TT" =>
           /\ cf_out.config_py = BoolV(lower(cf_in.env) \in TrueWords)
           /\ (lower(cf_in.env) \in TrueWords /\ cf_out.media_bot # NoValue)
                => cf_out.media_bot = cf_out.config_py

\* FORCE_REENCODE_TT=true: config.py raises ValueError where media_bot.py
\* stores True.
C40_TrueRaises ==
    /\ cf_in = [key |-> "FORCE_REENCODE_TT", env |-> << "t", "r", "u", "e" >>]
    /\ cf_out.config_py = ValueError
    /\ cf_out.media_bot = BoolV(TRUE)

\* FORCE_REENCODE_TT=1: config.py stores the int 1, not a boolean.
C40_OneIsAnInt ==
    /\ cf_in = [key |-> "FORCE_REENCODE_TT", env |-> << "1" >>]
    /\ cf_out.config_py = IntV(1)
    /\ cf_out.media_bot = BoolV(TRUE)

\* For the keys whose default is a str nothing raises, and the copy in
\* media_bot.py never raises.
C40_HoldsForStrKeysAndMediaBot ==
    /\ (cf_in.key \in {"YT_COOKIE_PATH", "YT_COOKIES_B64"} /\ EnvOverride
          /\ cf_out.config_py # NoValue) => cf_out.config_py = StrV(cf_in.env)
    /\ cf_out.media_bot # ValueError
    /\ (cf_in.key = "FORCE_REENCODE_TT" /\ EnvOverride /\ cf_out.media_bot # NoValue
          /\ lower(cf_in.env) \in TrueWords) => cf_out.media_bot = BoolV(TRUE)
=============================================================================
